---- MODULE Spec2Model ----
(***************************************************************************)
(* State-machine model of the planet-history simulator: the entity model   *)
(* (src/Entities.js), the country AI (src/ai.js), the war system           *)
(* (src/war.js), the yearly tick (src/Simulation.js), the event log        *)
(* (src/events.js) and the id generator / serializer (src/unnamed).        *)
(*                                                                         *)
(* Numbers.  Real-valued quantities are kept as scaled integers:           *)
(*   leader traits and globalTension   in hundredths  (0..100)             *)
(*   war exhaustion                    in hundredths  (0.05 -> 5)          *)
(*   casualty rates                    in 1/10000     (0.001 -> 10)        *)
(* Every rng call of the code is an input chosen with \E from a small set. *)
(***************************************************************************)
EXTENDS Integers, Sequences, FiniteSets, TLC

VARIABLES
    terrain,        \* World.terrain: tile -> TERRAIN code (immutable after generation)
    year,           \* Simulation.year
    tribes,         \* Simulation.tribes: sequence of tribe records
    countries,      \* Simulation.countries: sequence of country ids (references)
    heap,           \* country objects by id (countries and wars hold references)
    activeWars,     \* WarManager.activeWars: sequence of war records
    globalTension,  \* CountryAI.globalTension (hundredths)
    techLevel,      \* Simulation.techLevel
    stats,          \* Simulation.stats
    events,         \* EventSystem.events (surface events)
    idCounter,      \* module-level idCounter of generateID
    clock,          \* wall clock read by Date.now()
    pc,             \* position of the running Simulation method
    idx,            \* loop index i of the phase being executed (1-based)
    phaseLog,       \* phases of the current tick in the order they were entered
    runA,           \* determinism experiment: first run's record
    runB,           \* determinism experiment: second run's record
    script,         \* determinism experiment: rng draws of the first run
    speed,          \* Simulation.speed
    running,        \* Simulation.running
    lastTickTime,   \* Simulation.lastTickTime
    latentEvents,   \* EventSystem.latentEvents
    emitted,        \* the events of every logEvent call so far, per type (history)
    loaded,         \* what the last IOManager.loadWorld call handed to its caller
    issued,         \* every entity id given out so far, in order (history)
    planet,         \* generatePlanet of main.js: its locals, planetData and the texture
    game,          \* gameState of the single-file simulation: year, tribes, loop index
    spawning,      \* one sampling loop of initialize: attempts, the last sample, done
    ui,            \* gameLoop's view of the event log: lastEventCount and what addEvent was given
    flow,          \* generateRivers: the height map, riverMap and the river being traced
    rng            \* SeededRNG: the state in two 16-bit limbs (hi may exceed 16 bits), calls made

simVars == <<terrain, year, tribes, countries, heap, activeWars, globalTension,
             techLevel, stats, events, idCounter, clock, pc, idx, phaseLog>>
detVars == <<runA, runB, script>>
ctlVars == <<speed, running>>
ioVars == <<latentEvents, emitted, loaded, issued, planet, game, spawning, ui, flow, rng>>
auxVars == <<speed, running, lastTickTime, latentEvents, emitted, loaded, issued, planet, game, spawning, ui, flow, rng>>
vars == <<terrain, year, tribes, countries, heap, activeWars, globalTension,
          techLevel, stats, events, idCounter, clock, pc, idx, phaseLog,
          runA, runB, script,
          speed, running, lastTickTime, latentEvents, emitted, loaded, issued, planet, game, spawning, ui, flow, rng>>

----------------------------------------------------------------------------
(* Bounds of the model *)

WorldWidth == 6
WorldHeight == 4
MaxTicks == 1
MaxSpawn == 2
MaxWarTicks == 36
MaxClock == 2

(* Program constants *)

TERRAIN_OCEAN == 1
TERRAIN_COAST == 3
TERRAIN_PLAINS == 4
TERRAIN_HILLS == 5
TERRAIN_MOUNTAINS == 6
TERRAIN_ICE == 8
MinInitialTribes == 10
MaxInitialTribes == 16
MaxAttempts == 100
MaxVisibleEvents == 200

Min(a, b) == IF a < b THEN a ELSE b
Max(a, b) == IF a > b THEN a ELSE b
Abs(a) == IF a < 0 THEN -a ELSE a

Tile(x, y) == [x |-> x, y |-> y]
Tiles == {Tile(x, y) : x \in 0..(WorldWidth - 1), y \in 0..(WorldHeight - 1)}

\* utils.js wrapX: add/subtract width until 0 <= x < width
wrapX(x, width) == x % width
\* utils.js clampY
clampY(y, height) == Max(0, Min(height - 1, y))

\* World.isHabitable
isHabitable(x, y) ==
    LET t == terrain[Tile(x, y)]
    IN  t >= TERRAIN_COAST /\ t <= TERRAIN_HILLS

\* The four neighbours built by Tribe.migrate, Tribe.expand and CountryAI.expand,
\* in the order of the code.
Neighbors4(t) ==
    << Tile(wrapX(t.x + 1, WorldWidth), t.y),
       Tile(wrapX(t.x - 1, WorldWidth), t.y),
       Tile(t.x, clampY(t.y + 1, WorldHeight)),
       Tile(t.x, clampY(t.y - 1, WorldHeight)) >>

\* territories.some(t => t.x === x && t.y === y)
Owns(territories, tile) == \E i \in 1..Len(territories) : territories[i] = tile

\* Country.ownsTerritory, through the reference
ownsTerritory(cid, tile) == Owns(heap[cid].territories, tile)

SeqToSet(s) == {s[i] : i \in 1..Len(s)}
RemoveAt(s, i) == SubSeq(s, 1, i - 1) \o SubSeq(s, i + 1, Len(s))

\* generateID: ++idCounter
generateID(counter) == counter + 1

----------------------------------------------------------------------------
(* Event log: src/events.js *)

NoLocation == Tile(-1, -1)

\* an event of the log: the year, the location and the entities its message names
Event(type, yr, loc, a, b) == [type |-> type, year |-> yr, location |-> loc, a |-> a, b |-> b, winner |-> 0]

\* logEvent that refuses the new event at the cap instead of shifting
logEventKeepOldest(log, ev) ==
    IF Len(log) >= MaxVisibleEvents THEN log ELSE Append(log, ev)

\* EventSystem.logEvent for a surface event: push, then drop the oldest above the cap
logEvent(log, ev) ==
    LET pushed == Append(log, ev)
    IN  IF Len(pushed) > MaxVisibleEvents THEN Tail(pushed) ELSE pushed

----------------------------------------------------------------------------
(* Entities: src/Entities.js *)

\* new Tribe(rng, x, y, color): the id comes from generateID('tribe')
NewTribe(id, x, y, population) ==
    [ id |-> id, population |-> population, age |-> 0,
      territories |-> << Tile(x, y) >>, expansionCooldown |-> 0, x |-> x, y |-> y ]

\* Tribe.migrate without the isHabitable filter
MigrateAnywhere(t) == Neighbors4(t.territories[1])

\* Tribe.migrate: the habitable ones of the four neighbours of territories[0]
MigrateTargets(t) ==
    SelectSeq(Neighbors4(t.territories[1]), LAMBDA n : isHabitable(n.x, n.y))

\* Tribe.migrate with rng.int(0, valid.length - 1) = pick - 1
migrate(t, pick) ==
    LET valid == MigrateTargets(t)
    IN  IF Len(valid) > 0
        THEN [t EXCEPT !.territories = << valid[pick] >>,
                       !.x = valid[pick].x, !.y = valid[pick].y]
        ELSE t

\* Tribe.expand: the tiles collected in edges (i is the position of the tribe in
\* allTribes, standing for "tribe !== this")
ExpandEdges(t, i, allTribes, allCountries) ==
    { n \in UNION { SeqToSet(Neighbors4(t.territories[k])) : k \in 1..Len(t.territories) } :
        /\ isHabitable(n.x, n.y)
        /\ ~ Owns(t.territories, n)
        /\ ~ \E j \in 1..Len(allTribes) : j # i /\ Owns(allTribes[j].territories, n)
        /\ ~ \E c \in 1..Len(allCountries) : ownsTerritory(allCountries[c], n) }

\* Tribe.expand with the tile drawn from edges
expand(t, newTile) == [t EXCEPT !.territories = Append(@, newTile)]

\* Tribe.split: the new tribe takes the first half of the territories and half
\* of the population; "none" is the null returned below two territories
split(t, id) ==
    IF Len(t.territories) < 2
    THEN [kind |-> "none", parent |-> t, child |-> t]
    ELSE LET splitCount == Len(t.territories) \div 2
             newTerritories == SubSeq(t.territories, 1, splitCount)
             rest == SubSeq(t.territories, splitCount + 1, Len(t.territories))
             half == t.population \div 2
             parent == [t EXCEPT !.territories = rest, !.population = half]
             fresh == NewTribe(id, newTerritories[1].x, newTerritories[1].y, half)
         IN  [kind |-> "split", parent |-> parent,
              child |-> [fresh EXCEPT !.territories = newTerritories]]

\* new Leader(rng) without predecessor: traits are six rng.next() draws
NewLeader(id, age, traits) ==
    [ id |-> id, age |-> age, yearsInPower |-> 0, traits |-> traits ]

Clamp01(v) == Max(0, Min(100, v))

\* new Leader(rng, predecessor): every trait drifts by rng.range(-0.15, 0.15);
\* "freedom || 0.5" and "rationality || 0.5" replace a trait of 0 by 0.5
HeirTraits(p, drift) ==
    [ aggression  |-> Clamp01(p.aggression + drift),
      caution     |-> Clamp01(p.caution + drift),
      diplomacy   |-> Clamp01(p.diplomacy + drift),
      ambition    |-> Clamp01(p.ambition + drift),
      freedom     |-> Clamp01((IF p.freedom = 0 THEN 50 ELSE p.freedom) + drift),
      rationality |-> Clamp01((IF p.rationality = 0 THEN 50 ELSE p.rationality) + drift) ]

\* city ids: generateID('city') in the City class, Date.now() and rng.next() in
\* CountryAI.buildCity
CounterCityId(n) == [src |-> "counter", n |-> n, t |-> 0, r |-> 0]
ClockCityId(t, r) == [src |-> "clock", n |-> 0, t |-> t, r |-> r]

\* new City(rng, x, y, isCapital)
NewCity(cityId, x, y, isCapital) ==
    [ id |-> cityId, x |-> x, y |-> y,
      population |-> IF isCapital THEN 1000 ELSE 500, isCapital |-> isCapital ]

\* Country.findBestCapital
findBestCapital(territories) ==
    IF Len(territories) = 0 THEN Tile(0, 0) ELSE territories[1]

\* new Country(rng, tribe): ids are drawn in the order country, city, leader
NewCountry(counter, tribe, leaderAge, traits) ==
    LET capital == findBestCapital(tribe.territories)
    IN  [ id |-> generateID(counter),
          population |-> tribe.population,
          age |-> tribe.age,
          territories |-> tribe.territories,
          capitalX |-> capital.x, capitalY |-> capital.y,
          cities |-> << NewCity(CounterCityId(generateID(counter + 1)), capital.x, capital.y, TRUE) >>,
          leader |-> NewLeader(generateID(counter + 2), leaderAge, traits),
          techLevel |-> 1, unrest |-> 0, atWar |-> FALSE, allies |-> << >> ]

\* Country.tick with yearsInPower-- in place of yearsInPower++
CountryGrowBackwards(c) ==
    [c EXCEPT !.age = @ + 1,
              !.population = (@ * (100 + c.techLevel)) \div 100,
              !.leader.age = @ + 1,
              !.leader.yearsInPower = @ - 1]

\* Country.tick up to the leader-death roll
CountryGrow(c) ==
    [c EXCEPT !.age = @ + 1,
              !.population = (@ * (100 + c.techLevel)) \div 100,
              !.leader.age = @ + 1,
              !.leader.yearsInPower = @ + 1]

\* Country.replaceLeader
replaceLeader(c, id, leaderAge, revolutionary, freshTraits, drift) ==
    [c EXCEPT !.leader =
        NewLeader(id, leaderAge,
                  IF revolutionary THEN freshTraits ELSE HeirTraits(c.leader.traits, drift))]

----------------------------------------------------------------------------
(* Wars: src/war.js *)

\* new War(attacker, defender, startYear); attacker and defender are references
NewWar(attacker, defender, startYear) ==
    [ attacker |-> attacker, defender |-> defender,
      startYear |-> startYear, currentYear |-> startYear,
      attackerExhaustion |-> 0, defenderExhaustion |-> 0,
      attackerLosses |-> 0, defenderLosses |-> 0 ]

\* War.calculateStrength, rounded down to a whole number after every factor
calculateStrength(c, isDefender) ==
    LET tech == (c.population * (10 + c.techLevel)) \div 10
        morale == (tech * (100 - c.unrest)) \div 100
        bonus == IF isDefender THEN (morale * 12) \div 10 ELSE morale
        trait == IF isDefender THEN c.leader.traits.caution ELSE c.leader.traits.aggression
    IN  Max(1, (bonus * (500 + trait)) \div 500)

\* War.resolveBattle: roll (thousandths) against attackerAdvantage * 0.6 and 0.7,
\* attackerAdvantage = attackerStrength / totalStrength
resolveBattle(attackerStrength, totalStrength, roll) ==
    IF roll * totalStrength * 10 < attackerStrength * 6000 THEN "attacker"
    ELSE IF roll > 700 THEN "defender"
    ELSE "stalemate"

\* casualties with the rate taken as a whole number
CasualtiesUnscaled(population, rate) == population * rate

\* Math.floor(population * rng.range(0.001, 0.005)), rate in 1/10000
Casualties(population, rate) == (population * rate) \div 10000

\* War.tick, "Apply casualties"
applyCasualties(w, h, rateA, rateD) ==
    LET ca == Casualties(h[w.attacker].population, rateA)
        cd == Casualties(h[w.defender].population, rateD)
        h1 == [h EXCEPT ![w.attacker].population = @ - ca]
        h2 == [h1 EXCEPT ![w.defender].population = @ - cd]
    IN  [ war |-> [w EXCEPT !.attackerLosses = @ + ca, !.defenderLosses = @ + cd],
          heap |-> h2 ]

\* War.conquerTerritory: the defender territories within one tile of an attacker
\* territory (x wraps), in the defender's order
ConquestTargets(w, h) ==
    SelectSeq(h[w.defender].territories,
              LAMBDA d : \E a \in SeqToSet(h[w.attacker].territories) :
                  /\ Min(Abs(d.x - a.x), WorldWidth - Abs(d.x - a.x)) <= 1
                  /\ Abs(d.y - a.y) <= 1)

\* findIndex: position of the first territory equal to the tile, 0 for -1
findIndex(territories, tile) ==
    IF Owns(territories, tile)
    THEN CHOOSE i \in 1..Len(territories) :
            /\ territories[i] = tile
            /\ \A j \in 1..(i - 1) : territories[j] # tile
    ELSE 0

\* War.conquerTerritory without the splice: the tile is pushed to the attacker
\* and stays with the defender
transferTileKeep(w, h, target) ==
    [h EXCEPT ![w.attacker].territories = Append(@, target)]

\* War.conquerTerritory once rng.bool(0.3) held and the target was drawn: the
\* tile leaves the defender and joins the attacker
transferTile(w, h, target) ==
    LET at == findIndex(h[w.defender].territories, target)
        h1 == [h EXCEPT ![w.defender].territories = RemoveAt(@, at)]
    IN  IF at # 0
        THEN [h1 EXCEPT ![w.attacker].territories = Append(@, target)]
        ELSE h

\* War.conquerTerritory; pick = 0 stands for an empty target list or a failed
\* rng.bool(0.3), pick = k for targets[k - 1]
conquerTerritory(w, h, log, yr, pick) ==
    LET targets == ConquestTargets(w, h)
    IN  IF pick = 0 \/ pick > Len(targets)
        THEN [heap |-> h, events |-> log]
        ELSE [ heap |-> transferTile(w, h, targets[pick]),
               events |-> IF findIndex(h[w.defender].territories, targets[pick]) # 0
                          THEN logEvent(log, Event("territoryConquered", yr, targets[pick],
                                                   w.attacker, w.defender))
                          ELSE log ]

\* War.tick without the exhaustion increments
exhaustNever(w) == w

\* War.tick with the two exhaustion increments exchanged
exhaustDefenderFaster(w) ==
    [w EXCEPT !.attackerExhaustion = @ + 3, !.defenderExhaustion = @ + 5]

\* War.tick, "Exhaustion"
exhaust(w) ==
    [w EXCEPT !.attackerExhaustion = @ + 5, !.defenderExhaustion = @ + 3]

\* "attackerExhaustion > 1.0": twenty additions of 0.05 give 1.0000000000000002
\* in IEEE doubles, nineteen give 0.9500000000000003
attackerExhausted(w) == w.attackerExhaustion >= 100
\* "defenderExhaustion > 1.0": thirty-three additions of 0.03 stay below 1
defenderExhausted(w) == w.defenderExhaustion > 100

\* War.tick, "Check for war end conditions": the outcome handed to endWar,
\* "undecided" for endWar(year, events, rng) and "continue" for return null
endCondition(w, h) ==
    IF attackerExhausted(w) \/ defenderExhausted(w) THEN "undecided"
    ELSE IF h[w.defender].population < 100 \/ Len(h[w.defender].territories) < 2
         THEN "attacker_victory"
    ELSE IF h[w.attacker].population < 200 THEN "defender_victory"
    ELSE "continue"

\* War.endWar, "Determine outcome if not specified"
decideOutcome(w, outcome) ==
    IF outcome = "undecided"
    THEN IF w.attackerExhaustion > w.defenderExhaustion
         THEN "defender_victory" ELSE "attacker_victory"
    ELSE outcome

\* War.endWar, "Peace terms": annexCount times pop() from the defender and push
\* to the attacker
RECURSIVE annex(_, _, _, _)
annex(h, attacker, defender, count) ==
    IF count = 0 \/ Len(h[defender].territories) = 0
    THEN h
    ELSE LET terr == h[defender].territories[Len(h[defender].territories)]
             h1 == [h EXCEPT ![defender].territories = SubSeq(@, 1, Len(@) - 1)]
             h2 == [h1 EXCEPT ![attacker].territories = Append(@, terr)]
         IN  annex(h2, attacker, defender, count - 1)

\* War.endWar
endWar(w, h, log, yr, outcome) ==
    LET final == decideOutcome(w, outcome)
        winner == IF final = "attacker_victory" THEN w.attacker ELSE w.defender
        annexCount == Min(3, (Len(h[w.defender].territories) * 3) \div 10)
        h1 == IF final = "attacker_victory"
              THEN annex(h, w.attacker, w.defender, annexCount)
              ELSE h
        h2 == [h1 EXCEPT ![w.attacker].atWar = FALSE]
    IN  [ heap |-> [h2 EXCEPT ![w.defender].atWar = FALSE],
          events |-> logEvent(log, [Event("warEnded", yr, NoLocation, w.attacker, w.defender)
                                    EXCEPT !.winner = winner]),
          winner |-> final ]

\* War.tick; the result carries ended = TRUE when the war is to be removed
warTick(w, h, log, yr, roll, rateA, rateD, pick) ==
    LET attackerStrength == calculateStrength(h[w.attacker], FALSE)
        defenderStrength == calculateStrength(h[w.defender], TRUE)
        battleResult == resolveBattle(attackerStrength,
                                      attackerStrength + defenderStrength, roll)
        cas == applyCasualties([w EXCEPT !.currentYear = yr], h, rateA, rateD)
        conq == IF battleResult = "attacker"
                THEN conquerTerritory(cas.war, cas.heap, log, yr, pick)
                ELSE [heap |-> cas.heap, events |-> log]
        w1 == exhaust(cas.war)
        outcome == endCondition(w1, conq.heap)
    IN  IF outcome = "continue"
        THEN [ war |-> w1, heap |-> conq.heap, events |-> conq.events, ended |-> FALSE,
               battle |-> battleResult ]
        ELSE LET e == endWar(w1, conq.heap, conq.events, yr, outcome)
             IN  [ war |-> w1, heap |-> e.heap, events |-> e.events, ended |-> TRUE,
                   battle |-> battleResult ]

\* WarManager.declareWar without "defender.atWar = true"
declareWarAttackerOnly(wars, h, log, attacker, defender, yr) ==
    [ wars |-> Append(wars, NewWar(attacker, defender, yr)),
      heap |-> [h EXCEPT ![attacker].atWar = TRUE],
      events |-> logEvent(log, Event("warDeclared", yr,
                                     Tile(h[defender].capitalX, h[defender].capitalY),
                                     attacker, defender)) ]

\* WarManager.declareWar
declareWar(wars, h, log, attacker, defender, yr) ==
    LET h1 == [h EXCEPT ![attacker].atWar = TRUE]
    IN  [ wars |-> Append(wars, NewWar(attacker, defender, yr)),
          heap |-> [h1 EXCEPT ![defender].atWar = TRUE],
          events |-> logEvent(log, Event("warDeclared", yr,
                                         Tile(h[defender].capitalX, h[defender].capitalY),
                                         attacker, defender)) ]

----------------------------------------------------------------------------
(* Country AI: src/ai.js.  Weights in thousandths. *)

\* CountryAI.findNeighbors: the other countries with a territory within two
\* tiles; the wrap term of dx is territories[0].x of the asking country
findNeighbors(cid, allCountries, h) ==
    SelectSeq(allCountries,
              LAMBDA other :
                  /\ other # cid
                  /\ \E t1 \in SeqToSet(h[cid].territories) :
                        \E t2 \in SeqToSet(h[other].territories) :
                            /\ Min(Abs(t2.x - t1.x),
                                   h[cid].territories[1].x - Abs(t2.x - t1.x)) <= 2
                            /\ Abs(t2.y - t1.y) <= 2)

\* the edges of CountryAI.expand and the tiles counted by evaluateExpansion:
\* habitable neighbours owned by no country of allCountries
CountryEdges(cid, allCountries, h) ==
    { n \in UNION { SeqToSet(Neighbors4(h[cid].territories[k])) :
                        k \in 1..Len(h[cid].territories) } :
        /\ isHabitable(n.x, n.y)
        /\ ~ Owns(h[cid].territories, n)
        /\ ~ \E c \in 1..Len(allCountries) :
                allCountries[c] # cid /\ Owns(h[allCountries[c]].territories, n) }

evaluateExpansion(cid, allCountries, h) ==
    IF Len(h[cid].territories) > 50 THEN 100
    ELSE IF CountryEdges(cid, allCountries, h) # {} THEN 500 ELSE 0

evaluateCityBuilding(c) ==
    IF Len(c.cities) >= Len(c.territories) \div 10 THEN 0 ELSE 200

evaluateAlliance(cid, allCountries, h) ==
    IF Len(h[cid].allies) > 3 THEN 0
    ELSE IF Len(findNeighbors(cid, allCountries, h)) > 0 THEN 150 ELSE 50

evaluateWar(cid, allCountries, h, tension) ==
    LET neighbors == findNeighbors(cid, allCountries, h)
        weak == { k \in 1..Len(neighbors) :
                    10 * h[neighbors[k]].population < 7 * h[cid].population }
    IN  IF h[cid].atWar THEN 0
        ELSE IF h[cid].population < 500 THEN 0
        ELSE IF Len(neighbors) = 0 THEN 0
        ELSE 100 + 3 * tension + 200 * Cardinality(weak)

evaluateStability(c) == IF c.unrest > 50 THEN 400 ELSE 50

\* CountryAI.makeDecisions, "Apply leader personality modifiers": the five
\* weights in the order of the cumulative roll, all scaled by 10000
Weights(cid, allCountries, h, tension) ==
    LET traits == h[cid].leader.traits
    IN  << evaluateExpansion(cid, allCountries, h) * (100 + traits.ambition) * 100,
           evaluateCityBuilding(h[cid]) * 10000,
           evaluateAlliance(cid, allCountries, h) * (100 + traits.diplomacy) * 100,
           evaluateWar(cid, allCountries, h, tension) * (100 + traits.aggression)
                                                      * (100 - traits.caution),
           evaluateStability(h[cid]) * 10000 >>

Cumulative(w, k) == IF k = 0 THEN 0
                    ELSE IF k = 1 THEN w[1]
                    ELSE IF k = 2 THEN w[1] + w[2]
                    ELSE IF k = 3 THEN w[1] + w[2] + w[3]
                    ELSE IF k = 4 THEN w[1] + w[2] + w[3] + w[4]
                    ELSE w[1] + w[2] + w[3] + w[4] + w[5]

\* CountryAI.makeDecisions, the cumulative roll: roll = rng.next() * total
chooseAction(w, roll) ==
    IF roll < Cumulative(w, 1) THEN "expand"
    ELSE IF roll < Cumulative(w, 2) THEN "city"
    ELSE IF roll < Cumulative(w, 3) THEN "alliance"
    ELSE IF roll < Cumulative(w, 4) THEN "war"
    ELSE IF roll < Cumulative(w, 5) THEN "stability"
    ELSE "none"

\* rolls drawn for rng.next() * total: the lower end of each of the five bands
Rolls(w) == { Cumulative(w, k) : k \in 0..4 } \cap 0..(Cumulative(w, 5) - 1)

\* Country.expand
countryExpand(c, tile) ==
    IF Owns(c.territories, tile) THEN c
    ELSE [c EXCEPT !.territories = Append(@, tile)]

\* CountryAI.seekAlliance: neighbours that are no ally yet and not at war
AlliancePartners(cid, allCountries, h) ==
    SelectSeq(findNeighbors(cid, allCountries, h),
              LAMBDA n : ~ Owns(h[cid].allies, n) /\ ~ h[n].atWar)

\* the targets of declareWar without the test of n.atWar
WarTargetsAtWar(cid, allCountries, h) ==
    SelectSeq(findNeighbors(cid, allCountries, h),
              LAMBDA n : /\ ~ Owns(h[cid].allies, n)
                         /\ 10 * h[n].population < 12 * h[cid].population)

\* CountryAI.declareWar: neighbours that are no ally, not at war, and below 1.2
\* times the population
WarTargets(cid, allCountries, h) ==
    SelectSeq(findNeighbors(cid, allCountries, h),
              LAMBDA n : /\ ~ Owns(h[cid].allies, n)
                         /\ ~ h[n].atWar
                         /\ 10 * h[n].population < 12 * h[cid].population)

\* CountryAI.improveStability
improveStability(c) == [c EXCEPT !.unrest = Max(0, @ - 10)]

\* CountryAI.tick without Math.max(0, ...)
decayTensionUnclamped(tension) == tension - 1

\* CountryAI.tick
decayTension(tension) == Max(0, tension - 1)

\* the state a decision works on and returns
AIState(h, wars, tension, log) ==
    [heap |-> h, wars |-> wars, tension |-> tension, events |-> log]

\* CountryAI.makeDecisions: every state the decision can leave, over the roll
\* and the draws of the chosen action
makeDecisions(cid, allCountries, h, wars, tension, log, yr, now) ==
    LET same == AIState(h, wars, tension, log)
        w == Weights(cid, allCountries, h, tension)
        Do(action) ==
            CASE action = "expand" ->
                    LET edges == CountryEdges(cid, allCountries, h)
                    IN  IF edges = {} THEN {same}
                        ELSE { AIState([h EXCEPT ![cid] = countryExpand(@, n)],
                                       wars, tension, log) : n \in edges }
              [] action = "city" ->
                    { AIState([h EXCEPT ![cid].cities =
                                  Append(@, NewCity(ClockCityId(now, r),
                                                    h[cid].territories[k].x,
                                                    h[cid].territories[k].y, FALSE))],
                              wars, tension,
                              logEvent(log, Event("cityFounded", yr, h[cid].territories[k],
                                                  cid, 0))) :
                        k \in 1..Len(h[cid].territories), r \in {1, 2} }
              [] action = "alliance" ->
                    LET potential == AlliancePartners(cid, allCountries, h)
                    IN  IF Len(potential) = 0 THEN {same}
                        ELSE { AIState([h EXCEPT ![cid].allies = Append(@, potential[k]),
                                                 ![potential[k]].allies = Append(@, cid)],
                                       wars, tension,
                                       logEvent(log, Event("allianceFormed", yr, NoLocation,
                                                           cid, potential[k]))) :
                                 k \in 1..Len(potential) }
              [] action = "war" ->
                    LET targets == WarTargets(cid, allCountries, h)
                    IN  IF Len(targets) = 0 THEN {same}
                        ELSE { LET d == declareWar(wars, h, log, cid, targets[k], yr)
                               IN  AIState(d.heap, d.wars, Min(100, tension + 10), d.events) :
                                 k \in 1..Len(targets) }
              [] action = "stability" ->
                    { AIState([h EXCEPT ![cid] = improveStability(@)], wars, tension, log) }
              [] OTHER -> {same}
    IN  IF h[cid].atWar THEN {same}
        ELSE UNION { Do(chooseAction(w, roll)) : roll \in Rolls(w) }

----------------------------------------------------------------------------
(* rng draws *)

PopIncrements == {0, 5}            \* rng.int(0, 5)
InitialPopulations == {50, 150}    \* rng.int(50, 150)
CooldownDraws == {3, 8}            \* rng.int(3, 8)
LeaderAges == {25, 50}             \* rng.int(25, 50)
DriftDraws == {-15, 14}            \* rng.range(-0.15, 0.15), one draw for the six axes
BattleRolls == {0, 650, 990}       \* rng.next() in thousandths
CasualtyRates == {10, 49}          \* rng.range(0.001, 0.005) in 1/10000
AttemptDraws == {1, 99}            \* attempts of a sampling loop that found land

Traits(ag, ca, di, am, fr, ra) ==
    [ aggression |-> ag, caution |-> ca, diplomacy |-> di,
      ambition |-> am, freedom |-> fr, rationality |-> ra ]

\* six rng.next() draws of a leader without predecessor
TraitDraws == { Traits(80, 20, 50, 90, 0, 50), Traits(20, 99, 50, 10, 50, 50) }

----------------------------------------------------------------------------
(* Simulation: src/Simulation.js *)

\* Tribe.tick: every result it can return, over its rng draws.  kind is "split"
\* (a Tribe is returned), "civ" (a Country is returned) or "none" (null).
tribeTick(t0, i, allTribes, allCountries, counter) ==
    LET Aged(popInc) == [t0 EXCEPT !.age = @ + 1,
                                   !.population = @ + popInc,
                                   !.expansionCooldown = IF @ > 0 THEN @ - 1 ELSE @]
        \* rng.bool(0.05) failed (m = 0) or migrate drew valid[m - 1]
        Moved == { IF m > 0 THEN migrate(Aged(p), m) ELSE Aged(p) :
                        p \in PopIncrements, m \in 0..Len(MigrateTargets(t0)) }
        \* the expansion block skipped, or run with the drawn edge and cooldown
        Grown(moved) ==
            LET edges == ExpandEdges(moved, i, allTribes, allCountries)
            IN  {moved} \cup
                IF moved.expansionCooldown = 0 /\ Len(moved.territories) < 20
                THEN { [(IF edges # {} THEN expand(moved, e) ELSE moved)
                            EXCEPT !.expansionCooldown = cd] :
                          e \in (IF edges # {} THEN edges ELSE {NoLocation}),
                          cd \in CooldownDraws }
                ELSE {}
        None(g) == [kind |-> "none", tribe |-> g, child |-> g,
                    country |-> 0, counter |-> counter]
        Split(g) == LET sp == split(g, generateID(counter))
                    IN  [kind |-> sp.kind, tribe |-> sp.parent, child |-> sp.child,
                         country |-> 0,
                         counter |-> IF sp.kind = "split" THEN generateID(counter)
                                     ELSE counter]
        Civ(g) == { [kind |-> "civ", tribe |-> g, child |-> g,
                     country |-> NewCountry(counter, g, leaderAge, traits),
                     counter |-> counter + 3] :
                        leaderAge \in LeaderAges, traits \in TraitDraws }
        \* split is tried first and returns; the civilization check comes after
        Result(g) ==
            LET canSplit == g.population > 300 /\ Len(g.territories) > 5
                canCiv == g.population > 500 /\ g.age > 200 /\ Len(g.territories) >= 5
            IN  (IF canSplit THEN {Split(g)} ELSE {})
                \cup (IF canCiv THEN Civ(g) ELSE {})
                \cup {None(g)}
    IN  UNION { UNION { Result(g) : g \in Grown(mv) } : mv \in Moved }

\* Simulation.tick without the call of warManager.tick
EnterWarsSkipped(nW) == << "ai", 0 >>

\* control flow of Simulation.tick: the loop that follows the one that ended,
\* as <<pc, idx>>; nT, nC, nW are the lengths the loops start from
EnterWars(nW) == IF nW > 0 THEN << "wars", nW >> ELSE << "ai", 0 >>
EnterCountries(nC, nW) == IF nC > 0 THEN << "countries", nC >> ELSE EnterWars(nW)
EnterTribes(nT, nC, nW) == IF nT > 0 THEN << "tribes", nT >> ELSE EnterCountries(nC, nW)

\* objects still referenced by the countries list or by a war
Live(h, cs, wars) ==
    LET keep == SeqToSet(cs) \cup { wars[k].attacker : k \in 1..Len(wars) }
                             \cup { wars[k].defender : k \in 1..Len(wars) }
    IN  [ c \in keep |-> h[c] ]

\* Simulation.initialize, one tribe of the loop.  o.attempts is the value of
\* attempts when the do-while loop ends and o.tile the last sample: the loop
\* ends on a habitable sample or at 100 attempts
spawnTribe(st, o) ==
    IF o.attempts < MaxAttempts
    THEN LET tribe == NewTribe(generateID(st.counter), o.tile.x, o.tile.y, o.population)
         IN  [ tribes |-> Append(st.tribes, tribe),
               counter |-> generateID(st.counter),
               events |-> logEvent(st.events, Event("tribeFormed", year, o.tile, tribe.id, 0)) ]
    ELSE st

\* Simulation.initialize: the loop over the numTribes sampling outcomes
RECURSIVE initialize(_, _, _)
initialize(st, outcomes, k) ==
    IF k > Len(outcomes) THEN st
    ELSE initialize(spawnTribe(st, outcomes[k]), outcomes, k + 1)

\* outcomes of one sampling loop: land found before the 100th attempt, or the
\* loop ended by the attempt count (whatever the 100th sample was)
FoundLand == { [attempts |-> a, tile |-> t, population |-> p] :
                  a \in AttemptDraws, p \in InitialPopulations,
                  t \in { u \in Tiles : isHabitable(u.x, u.y) } }
GaveUp == { [attempts |-> MaxAttempts, tile |-> t, population |-> 50] : t \in Tiles }

\* the sampling loops of one initialize call: rng.int(10, 16) loops, of which
\* the first k find land
SamplingOutcomes ==
    UNION { UNION { { [n \in 1..numTribes |-> IF n <= k THEN found[n] ELSE lost] :
                          found \in [1..k -> FoundLand], lost \in GaveUp } :
                      k \in 0..Min(MaxSpawn, numTribes) } :
            numTribes \in MinInitialTribes..MaxInitialTribes }

\* Simulation.initialize
Initialize ==
    /\ pc = "new"
    /\ \E outcomes \in SamplingOutcomes :
          LET st == initialize([tribes |-> tribes, counter |-> idCounter, events |-> events],
                               outcomes, 1)
          IN  /\ tribes' = st.tribes
              /\ idCounter' = st.counter
              /\ events' = st.events
    /\ pc' = "idle"
    /\ UNCHANGED << terrain, year, countries, heap, activeWars, globalTension,
                    techLevel, stats, clock, idx, phaseLog >>
    /\ UNCHANGED detVars
    /\ UNCHANGED auxVars

\* gameState.lastEventCount = 0 in startGame; delivered is what ui.addEvent
\* has been called with
NoUi == [lastEventCount |-> 0, delivered |-> << >>]

\* Simulation.initialize, "let attempts = 0" of one tribe
NotSampled == [attempts |-> 0, x |-> 0, y |-> 0, done |-> FALSE]

\* the do-while loop of one tribe goes round again: after its first pass only
\* while the sample is not habitable and attempts < 100
SampleAgain ==
    \/ spawning.attempts = 0
    \/ ~ isHabitable(spawning.x, spawning.y) /\ spawning.attempts < MaxAttempts

\* one pass of the do-while loop: a location is drawn, attempts++
SampleLocation ==
    /\ pc = "new" /\ ~ spawning.done
    /\ SampleAgain
    /\ \E t \in Tiles :
          spawning' = [spawning EXCEPT !.x = t.x, !.y = t.y, !.attempts = @ + 1]
    /\ UNCHANGED << simVars, detVars, ctlVars, lastTickTime, latentEvents, emitted,
                    loaded, issued, planet, game, ui, flow, rng >>

\* the loop has ended: "if (attempts < 100)" and the body of the for loop
PlaceTribe ==
    /\ pc = "new" /\ ~ spawning.done
    /\ ~ SampleAgain
    /\ \E p \in InitialPopulations :
          LET st == spawnTribe([tribes |-> tribes, counter |-> idCounter, events |-> events],
                               [attempts |-> spawning.attempts,
                                tile |-> Tile(spawning.x, spawning.y), population |-> p])
          IN  /\ tribes' = st.tribes
              /\ idCounter' = st.counter
              /\ events' = st.events
    /\ spawning' = [spawning EXCEPT !.done = TRUE]
    /\ UNCHANGED << terrain, year, countries, heap, activeWars, globalTension,
                    techLevel, stats, clock, pc, idx, phaseLog >>
    /\ UNCHANGED << detVars, ctlVars, lastTickTime, latentEvents, emitted,
                    loaded, issued, planet, game, ui, flow, rng >>

\* bound on the ticks explored from a start state
MatureYear == 400 - 1
TicksDone == IF year >= MatureYear THEN year - MatureYear ELSE year

\* Simulation.tick: this.year++ and the start of the tribe loop
TickBegin ==
    /\ pc = "idle"
    /\ TicksDone < MaxTicks
    /\ year' = year + 1
    /\ LET next == EnterTribes(Len(tribes), Len(countries), Len(activeWars))
       IN  pc' = next[1] /\ idx' = next[2]
    /\ phaseLog' = << >>
    /\ UNCHANGED << terrain, tribes, countries, heap, activeWars, globalTension,
                    techLevel, stats, events, idCounter, clock >>
    /\ UNCHANGED detVars
    /\ UNCHANGED auxVars

\* Simulation.tick, "Process tribes": one iteration of the loop
TribeStep ==
    /\ pc = "tribes"
    /\ \E r \in tribeTick(tribes[idx], idx, tribes, countries, idCounter) :
          /\ idCounter' = r.counter
          /\ IF r.kind = "split"
             THEN /\ tribes' = Append([tribes EXCEPT ![idx] = r.tribe], r.child)
                  /\ events' = logEvent(events, Event("tribeSplit", year,
                                                      Tile(r.child.x, r.child.y),
                                                      r.tribe.id, r.child.id))
                  /\ UNCHANGED << countries, heap, stats >>
             ELSE IF r.kind = "civ"
             THEN /\ tribes' = RemoveAt(tribes, idx)
                  /\ countries' = Append(countries, r.country.id)
                  /\ heap' = (r.country.id :> r.country) @@ heap
                  /\ events' = logEvent(events, Event("civilizationFormed", year,
                                                      Tile(r.country.capitalX, r.country.capitalY),
                                                      r.country.id, 0))
                  /\ stats' = [stats EXCEPT !.totalCivilizations = @ + 1]
             ELSE /\ tribes' = IF r.tribe.population < 10
                               THEN RemoveAt(tribes, idx)
                               ELSE [tribes EXCEPT ![idx] = r.tribe]
                  /\ UNCHANGED << countries, heap, stats, events >>
    /\ LET next == IF idx > 1 THEN << "tribes", idx - 1 >>
                   ELSE EnterCountries(Len(countries'), Len(activeWars))
       IN  pc' = next[1] /\ idx' = next[2]
    /\ phaseLog' = Append(phaseLog, "tribes")
    /\ UNCHANGED << terrain, year, activeWars, globalTension, techLevel, clock >>
    /\ UNCHANGED detVars
    /\ UNCHANGED auxVars

\* Simulation.tick, "Process countries", up to the AI decision: Country.tick and
\* the succession after a leader_death result, over the rng draws
countryTick(c, log, counter, yr) ==
    LET grown == CountryGrow(c)
        stays == [country |-> grown, events |-> log, counter |-> counter]
    IN  {stays} \cup
        IF grown.leader.age > 50
        THEN { LET repl == replaceLeader(grown, generateID(counter), leaderAge,
                                         grown.unrest > 70, traits, drift)
               IN  [ country |-> repl,
                     events |-> logEvent(log, Event("leaderDied", yr,
                                                    Tile(c.capitalX, c.capitalY),
                                                    grown.leader.id, repl.leader.id)),
                     counter |-> generateID(counter) ] :
                  leaderAge \in LeaderAges, traits \in TraitDraws, drift \in DriftDraws }
        ELSE {}

\* the collapse check with the population limit at 1000
collapsedBelowThousand(c) == c.population < 1000 \/ Len(c.territories) = 0

\* Simulation.tick, "Check for country collapse"
collapsed(c) == c.population < 50 \/ Len(c.territories) = 0

\* Simulation.tick, "Process countries": one iteration of the loop
CountryStep ==
    /\ pc = "countries"
    /\ LET cid == countries[idx]
       IN  \E t \in countryTick(heap[cid], events, idCounter, year) :
           \E d \in IF ~ t.country.atWar /\ year % 5 = 0
                    THEN makeDecisions(cid, countries, [heap EXCEPT ![cid] = t.country],
                                       activeWars, globalTension, t.events, year, clock)
                    ELSE { AIState([heap EXCEPT ![cid] = t.country], activeWars,
                                   globalTension, t.events) } :
              /\ idCounter' = t.counter
              /\ countries' = IF collapsed(d.heap[cid]) THEN RemoveAt(countries, idx)
                              ELSE countries
              /\ activeWars' = d.wars
              /\ heap' = Live(d.heap, countries', d.wars)
              /\ globalTension' = d.tension
              /\ events' = d.events
    /\ LET next == IF idx > 1 THEN << "countries", idx - 1 >>
                   ELSE EnterWars(Len(activeWars'))
       IN  pc' = next[1] /\ idx' = next[2]
    /\ phaseLog' = Append(phaseLog, "countries")
    /\ UNCHANGED << terrain, year, tribes, techLevel, stats, clock >>
    /\ UNCHANGED detVars
    /\ UNCHANGED auxVars

\* WarManager.tick: one iteration of the loop over activeWars
WarStep ==
    /\ pc = "wars"
    /\ LET w == activeWars[idx]
       IN  \E roll \in BattleRolls, rateA \in CasualtyRates, rateD \in CasualtyRates :
           \E pick \in 0..Len(ConquestTargets(w, heap)) :
              LET r == warTick(w, heap, events, year, roll, rateA, rateD, pick)
              IN  /\ activeWars' = IF r.ended THEN RemoveAt(activeWars, idx)
                                   ELSE [activeWars EXCEPT ![idx] = r.war]
                  /\ heap' = Live(r.heap, countries, activeWars')
                  /\ events' = r.events
    /\ LET next == IF idx > 1 THEN << "wars", idx - 1 >> ELSE << "ai", 0 >>
       IN  pc' = next[1] /\ idx' = next[2]
    /\ phaseLog' = Append(phaseLog, "wars")
    /\ UNCHANGED << terrain, year, tribes, countries, globalTension, techLevel,
                    stats, idCounter, clock >>
    /\ UNCHANGED detVars
    /\ UNCHANGED auxVars

\* Simulation.tick, "AI global state": CountryAI.tick
AITick ==
    /\ pc = "ai"
    /\ globalTension' = decayTension(globalTension)
    /\ pc' = IF year % 100 = 0 THEN "tech" ELSE "idle"
    /\ phaseLog' = Append(phaseLog, "ai")
    /\ UNCHANGED << terrain, year, tribes, countries, heap, activeWars, techLevel,
                    stats, events, idCounter, clock, idx >>
    /\ UNCHANGED detVars
    \* "this.lastTickTime = performance.now()" when tick returns here
    /\ lastTickTime' = IF pc' = "idle" THEN clock ELSE lastTickTime
    /\ UNCHANGED << ctlVars, ioVars >>

\* checkTechAdvancement without the test of techLevel < 10
techAdvancesUncapped ==
    LET RECURSIVE Sum(_)
        Sum(k) == IF k = 0 THEN 0 ELSE heap[countries[k]].population + Sum(k - 1)
    IN  Sum(Len(countries)) + Len(countries) * 100000 + stats.totalWars * 50000
            > techLevel * 10000000

\* Simulation.checkTechAdvancement: techScore > requiredScore, both times 10000
techAdvances ==
    LET RECURSIVE Sum(_)
        Sum(k) == IF k = 0 THEN 0 ELSE heap[countries[k]].population + Sum(k - 1)
        totalPop == Sum(Len(countries))
    IN  /\ totalPop + Len(countries) * 100000 + stats.totalWars * 50000
              > techLevel * 10000000
        /\ techLevel < 10

\* Simulation.tick, "Tech progression", then tick returns
TechCheck ==
    /\ pc = "tech"
    /\ \E lucky \in BOOLEAN :
          IF techAdvances /\ lucky
          THEN /\ techLevel' = techLevel + 1
               /\ events' = logEvent(events, Event("techAdvancement", year, NoLocation,
                                                   techLevel + 1, 0))
               /\ heap' = [c \in DOMAIN heap |->
                              IF c \in SeqToSet(countries)
                              THEN [heap[c] EXCEPT !.techLevel = techLevel + 1]
                              ELSE heap[c]]
          ELSE UNCHANGED << techLevel, events, heap >>
    /\ pc' = "idle"
    /\ phaseLog' = Append(phaseLog, "tech")
    /\ UNCHANGED << terrain, year, tribes, countries, activeWars, globalTension,
                    stats, idCounter, clock, idx >>
    /\ UNCHANGED detVars
    \* "this.lastTickTime = performance.now()" when tick returns here
    /\ lastTickTime' = IF pc' = "idle" THEN clock ELSE lastTickTime
    /\ UNCHANGED << ctlVars, ioVars >>

\* the years of a war as WarManager.tick sees them: Simulation.tick with the
\* tribe and country loops left out, explored for MaxWarTicks years
WarTickBegin ==
    /\ pc = "idle"
    /\ activeWars # << >>
    /\ year < MatureYear + MaxWarTicks
    /\ year' = year + 1
    /\ LET next == EnterWars(Len(activeWars))
       IN  pc' = next[1] /\ idx' = next[2]
    /\ phaseLog' = << >>
    /\ UNCHANGED << terrain, tribes, countries, heap, activeWars, globalTension,
                    techLevel, stats, events, idCounter, clock >>
    /\ UNCHANGED detVars
    /\ UNCHANGED auxVars

----------------------------------------------------------------------------
(* Start states.  A world is the terrain array left by World.generate; the    *)
(* simulation starts either freshly constructed or in a later year, in a      *)
(* state the ticks lead to: tribes never shrink below their first population, *)
(* a country is formed from five or more tiles with a population above 500,   *)
(* ids follow the order of creation.                                          *)

\* three plains tiles in an ocean
IslandMap ==
    [ t \in Tiles |-> IF t.y = 1 /\ t.x <= 2 THEN TERRAIN_PLAINS ELSE TERRAIN_OCEAN ]

\* no land at all
OceanMap == [ t \in Tiles |-> TERRAIN_OCEAN ]

\* land with one ocean, one mountain and one ice tile
ContinentMap ==
    [ t \in Tiles |->
        IF t.x = 0 /\ t.y = 0 THEN TERRAIN_OCEAN
        ELSE IF t.x = 3 /\ t.y = 1 THEN TERRAIN_MOUNTAINS
        ELSE IF t.x = 3 /\ t.y = 3 THEN TERRAIN_ICE
        ELSE IF t.x = 1 /\ t.y = 0 THEN TERRAIN_COAST
        ELSE IF t.x = 2 /\ t.y = 1 THEN TERRAIN_HILLS
        ELSE TERRAIN_PLAINS ]

\* new Simulation(world, rng)
Constructed(map) ==
    [ terrain |-> map, year |-> 0, tribes |-> << >>, countries |-> << >>,
      heap |-> << >>, activeWars |-> << >>, globalTension |-> 0, techLevel |-> 1,
      stats |-> [totalDeaths |-> 0, totalWars |-> 0, totalCivilizations |-> 0],
      events |-> << >>, idCounter |-> 0, pc |-> "new", idx |-> 0 ]

TribeAt(id, population, age, territories, cooldown) ==
    [ id |-> id, population |-> population, age |-> age, territories |-> territories,
      expansionCooldown |-> cooldown, x |-> territories[1].x, y |-> territories[1].y ]

CountryAt(id, population, age, territories, leader, atWar) ==
    [ id |-> id, population |-> population, age |-> age, territories |-> territories,
      capitalX |-> territories[1].x, capitalY |-> territories[1].y,
      cities |-> << NewCity(CounterCityId(id + 1), territories[1].x, territories[1].y, TRUE) >>,
      leader |-> leader, techLevel |-> 1, unrest |-> 0, atWar |-> atWar, allies |-> << >> ]

LeaderAt(id, age, yearsInPower, traits) ==
    [ id |-> id, age |-> age, yearsInPower |-> yearsInPower, traits |-> traits ]

\* year 399: a large old tribe next to a small one
TribeLands ==
    [ Constructed(ContinentMap) EXCEPT
        !.year = MatureYear, !.pc = "idle", !.idCounter = 2,
        !.tribes = << TribeAt(1, 498, MatureYear,
                              << Tile(1, 1), Tile(1, 0), Tile(2, 0),
                                 Tile(2, 1), Tile(1, 2), Tile(2, 2) >>, 0),
                      TribeAt(2, 120, MatureYear, << Tile(0, 1) >>, 2) >> ]

BigTerritory == << Tile(1, 0), Tile(2, 0), Tile(3, 0), Tile(1, 1),
                   Tile(2, 1), Tile(1, 2), Tile(2, 2), Tile(3, 2) >>
SmallTerritory == << Tile(0, 2), Tile(0, 3) >>

\* year 399: two countries at peace, the smaller one reduced to two tiles by an
\* earlier war, and one of the first tribes beside them
TwoCountries ==
    [ Constructed(ContinentMap) EXCEPT
        !.year = MatureYear, !.pc = "idle", !.idCounter = 10,
        !.stats = [totalDeaths |-> 0, totalWars |-> 0, totalCivilizations |-> 2],
        !.tribes = << TribeAt(1, 100, MatureYear, << Tile(0, 1) >>, 4) >>,
        !.countries = << 4, 7 >>,
        !.heap = (4 :> CountryAt(4, 900, MatureYear, BigTerritory,
                                 LeaderAt(10, 50, 10, Traits(80, 20, 50, 90, 0, 50)), FALSE))
              @@ (7 :> CountryAt(7, 700, 380, SmallTerritory,
                                 LeaderAt(9, 55, 30, Traits(20, 60, 50, 10, 50, 50)), FALSE)) ]

\* year 399: the same two countries founded three columns apart on the
\* six-column world, which is three columns in either direction round
FarCountries ==
    [ TwoCountries EXCEPT
        !.tribes = << >>,
        !.heap = (4 :> CountryAt(4, 900, MatureYear, << Tile(0, 1) >>,
                                 LeaderAt(10, 50, 10, Traits(80, 20, 50, 90, 0, 50)), FALSE))
              @@ (7 :> CountryAt(7, 700, 380, << Tile(3, 2) >>,
                                 LeaderAt(9, 55, 30, Traits(20, 60, 50, 10, 50, 50)), FALSE)) ]

\* year 1000, in the tribe loop of a tick with the tribes 600 down to 3 done:
\* six hundred tribes, the first with eight tiles and the others with one tile
\* each on the two eastern columns
Crowded ==
    [ Constructed(ContinentMap) EXCEPT
        !.year = 1000, !.pc = "tribes", !.idx = 2, !.idCounter = 600,
        !.tribes = [ k \in 1..600 |->
                        IF k = 1 THEN TribeAt(1, 400, 1000, BigTerritory, 0)
                        ELSE TribeAt(k, 100, 1000 - k,
                                     << Tile(4 + (k % 2), (k \div 2) % WorldHeight) >>, 5) ] ]

\* year 399: the large tribe of TribeLands some years after a split.  Tribe.split
\* gave the first half of its territories, with the tile of its centre (x, y),
\* to the new tribe and left x and y alone; the new tribe has since migrated
SplitLands == [ TribeLands EXCEPT !.tribes[1].x = 0, !.tribes[1].y = 1 ]

\* year 399: three one-tile countries within two tiles of each other, the last
\* one below the 500 people a war needs
ThreeCountries ==
    [ FarCountries EXCEPT
        !.stats = [totalDeaths |-> 0, totalWars |-> 0, totalCivilizations |-> 3],
        !.countries = << 4, 7, 1 >>,
        !.heap = (4 :> CountryAt(4, 900, MatureYear, << Tile(1, 1) >>,
                                 LeaderAt(10, 50, 10, Traits(80, 20, 50, 90, 0, 50)), FALSE))
              @@ (7 :> CountryAt(7, 700, 380, << Tile(2, 2) >>,
                                 LeaderAt(9, 55, 30, Traits(20, 60, 50, 10, 50, 50)), FALSE))
              @@ (1 :> CountryAt(1, 400, 300, << Tile(1, 3) >>,
                                 LeaderAt(3, 40, 5, Traits(80, 20, 50, 90, 0, 50)), FALSE)) ]

\* three countries on a border: the strongest is last in the list and so first
\* in the country loop, its neighbour 7 holds two tiles
Borderlands ==
    [ ThreeCountries EXCEPT
        !.countries = << 1, 7, 4 >>,
        !.heap[7].territories = << Tile(2, 2), Tile(3, 2) >> ]

\* the same two countries after a series of short wars: every declaration
\* added 0.1 to the tension, every tick took 0.01 away
TenseCountries == [TwoCountries EXCEPT !.globalTension = 95]

\* year 400, after the country loop in which country 3 declared war on country 6
WarDeclared(defenderTerritory) ==
    [ Constructed(ContinentMap) EXCEPT
        !.year = MatureYear + 1, !.pc = "wars", !.idx = 1, !.idCounter = 10,
        !.globalTension = 10,
        !.stats = [totalDeaths |-> 0, totalWars |-> 0, totalCivilizations |-> 2],
        !.countries = << 3, 6 >>,
        !.activeWars = << NewWar(3, 6, MatureYear + 1) >>,
        !.heap = (3 :> CountryAt(3, 900, MatureYear + 1, BigTerritory,
                                 LeaderAt(9, 26, 1, Traits(80, 20, 50, 90, 0, 50)), TRUE))
              @@ (6 :> CountryAt(6, 700, MatureYear + 1, defenderTerritory,
                                 LeaderAt(10, 27, 2, Traits(20, 60, 50, 10, 50, 50)), TRUE)) ]

\* ---------------------------------------------------------------------------
\* The single-file simulation (src/unnamed/part_001): the tribe loop of
\* simulateTick.  A tribe is its id, age, population, settled flag, position
\* and territories; ageBefore is its age when the tick began (-1 for
\* a tribe made during the tick).  What depends on tiles, leaders and the rng
\* is drawn.
\* ---------------------------------------------------------------------------

MaxGameYears == 1

GameTribe(id, age, population, settled, x, territories) ==
    [ id |-> id, age |-> age, ageBefore |-> age - 1, population |-> population,
      settled |-> settled, x |-> x, y |-> 0, territories |-> territories,
      techLevel |-> IF settled THEN 1 ELSE 0 ]

\* a country of gameState.countries; aggressive is leader.traits.aggression > 0.6
GameCountry(id, age, tech, aggressive, territories) ==
    [ id |-> id, age |-> age, leaderAge |-> 40, techLevel |-> tech,
      aggressive |-> aggressive, atWar |-> FALSE, territories |-> territories ]

\* the four neighbours expandTerritory looks at, in its order
gameNeighbors(terr) ==
    << Tile((terr.x - 1 + WorldWidth) % WorldWidth, terr.y),
       Tile((terr.x + 1) % WorldWidth, terr.y),
       Tile(terr.x, Max(0, terr.y - 1)),
       Tile(terr.x, Min(WorldHeight - 1, terr.y + 1)) >>

\* expandTerritory(entity, tiles, 'tribe'): the neighbours of every territory
\* that the tribe does not hold, no other tribe holds and that pass the land,
\* habitability and rng tests (the tiles of lucky) are pushed
expandTerritory(ts, k, lucky) ==
    LET own == ts[k].territories
        around == [j \in 1..(4 * Len(own)) |->
                      gameNeighbors(own[((j - 1) \div 4) + 1])[((j - 1) % 4) + 1]]
        newTerritories ==
            SelectSeq(around,
                      LAMBDA n : /\ ~ Owns(own, n)
                                 /\ ~ \E o \in 1..Len(ts) :
                                        ts[o].id # ts[k].id /\ Owns(ts[o].territories, n)
                                 /\ n \in lucky)
    IN  [ts EXCEPT ![k].territories = own \o newTerritories]

\* three tribes of a later year: a small settled one, a strong settled one two
\* tiles away, and a large wandering one
Villages ==
    [ year |-> 60, i |-> 0, countries |-> << >>, removed |-> << >>, timers |-> << >>,
      nextId |-> 4,
      tribes |-> << GameTribe(1, 59, 200, TRUE, 0,
                              << Tile(0, 0), Tile(1, 0), Tile(0, 1) >>),
                    GameTribe(2, 55, 450, TRUE, 2,
                              << Tile(2, 0), Tile(2, 1), Tile(2, 2),
                                 Tile(3, 0), Tile(3, 1), Tile(3, 2) >>),
                    GameTribe(3, 30, 520, FALSE, 5, << Tile(5, 0) >>) >> ]

\* splitTribe: nothing at 600 tribes; else 40% of the people leave as a new tribe
splitTribe(ts, k, id) ==
    IF Len(ts) >= 600 THEN ts
    ELSE LET newPopulation == (ts[k].population * 4) \div 10
         IN  Append([ts EXCEPT ![k].population = @ - newPopulation],
                    [ GameTribe(id, 0, newPopulation, FALSE, ts[k].x, << >>)
                        EXCEPT !.ageBefore = 0 - 1, !.techLevel = ts[k].techLevel ])

\* tribalConflict: the first settled tribe within distance 2 that is weaker by
\* the factor 1.3 is conquered and spliced out of gameState.tribes
tribalConflict(ts, k) ==
    LET victims == { n \in 1..Len(ts) :
                        /\ ts[n].id # ts[k].id
                        /\ Abs(ts[k].x - ts[n].x) + Abs(ts[k].y - ts[n].y) <= 2
                        /\ ts[n].settled
                        /\ 10 * ts[k].population > 13 * ts[n].population }
    IN  IF victims = {} THEN ts
        ELSE LET n == CHOOSE v \in victims : \A w \in victims : v <= w
             IN  RemoveAt([ts EXCEPT ![k].population = @ + ts[n].population \div 2,
                                     ![k].territories = @ \o ts[n].territories], n)

\* one pass of the body of "for (let i = tribes.length - 1; i >= 0; i--)" for
\* the index i (1-based here), with the draws d; the result is the list
tribeIteration(ts, i, id, d) ==
    LET grown == ts[i].population + (ts[i].population * d.growth) \div 100
        aged == [ts EXCEPT ![i].age = @ + 1,
                           ![i].population = IF d.disease THEN (grown * 9) \div 10 ELSE grown]
        t == aged[i]
        \* the settlement and formation block; "gone" is splice(i, 1) and continue
        gone == RemoveAt(aged, i)
        settledNow == [aged EXCEPT ![i].settled = TRUE, ![i].techLevel = 1]
        \* migrateTribe to a tile no other tribe holds
        moved == IF \E o \in 1..Len(aged) :
                       o # i /\ Owns(aged[o].territories, Tile(d.x, t.y))
                 THEN aged
                 ELSE [aged EXCEPT ![i].x = d.x, ![i].territories = << Tile(d.x, t.y) >>]
        \* "Settled tribes can expand territory"
        expanded == IF t.age % 5 = 0 /\ t.population > 150 /\ d.lucky # {}
                    THEN expandTerritory(aged, i, d.lucky) ELSE aged
        canFound == Len(expanded[i].territories) > 5 /\ t.population > 400 /\ t.age > 50
        AfterSplit(l) == IF l[i].population > 500 /\ d.splits THEN splitTribe(l, i, id) ELSE l
        AfterConflict(l) == IF l[i].settled /\ d.conflict THEN tribalConflict(l, i) ELSE l
    IN  IF t.population < 10 THEN [tribes |-> gone, formed |-> << >>]
        ELSE IF ~ t.settled
        THEN IF d.choice = "settle" /\ t.population > 100
             THEN [tribes |-> AfterConflict(AfterSplit(settledNow)), formed |-> << >>]
             ELSE IF d.choice = "found" /\ t.population > 100
             THEN [tribes |-> gone, formed |-> << GameCountry(id, 0, t.techLevel, d.aggressive, t.territories) >>]
             ELSE IF d.choice = "migrate"
             THEN [tribes |-> AfterConflict(AfterSplit(moved)), formed |-> << >>]
             ELSE [tribes |-> AfterConflict(AfterSplit(aged)), formed |-> << >>]
        ELSE IF canFound /\ d.choice = "found"
        THEN [tribes |-> gone, formed |-> << GameCountry(id, 0, t.techLevel, d.aggressive, t.territories) >>]
        ELSE [tribes |-> AfterConflict(AfterSplit(expanded)), formed |-> << >>]

\* simulateTick up to the head of the tribe loop
SimulateTick ==
    /\ game.i = 0
    /\ game.year < Villages.year + MaxGameYears
    /\ game' = [game EXCEPT !.year = @ + 1,
                            !.i = Len(game.tribes),
                            !.tribes = [k \in 1..Len(game.tribes) |->
                                           [game.tribes[k] EXCEPT !.ageBefore = game.tribes[k].age]]]
    /\ UNCHANGED << simVars, detVars, ctlVars, lastTickTime, latentEvents, emitted,
                    loaded, issued, planet, spawning, ui, flow, rng >>

\* one iteration of the tribe loop, then i--
TribeIteration ==
    /\ game.i > 0
    /\ \E growth \in {0, 2}, disease \in BOOLEAN, splits \in BOOLEAN, conflict \in BOOLEAN,
          choice \in {"wait", "settle", "found", "migrate"}, x \in {4, 5},
          lucky \in {{}, Tiles}, aggressive \in BOOLEAN :
          LET r == tribeIteration(game.tribes, game.i, game.nextId,
                                  [growth |-> growth, disease |-> disease, splits |-> splits,
                                   conflict |-> conflict, choice |-> choice, x |-> x,
                                   lucky |-> lucky, aggressive |-> aggressive])
          IN  game' = [game EXCEPT !.tribes = r.tribes,
                                   !.countries = @ \o r.formed,
                                   !.nextId = @ + 1,
                                   !.i = game.i - 1]
    /\ UNCHANGED << simVars, detVars, ctlVars, lastTickTime, latentEvents, emitted,
                    loaded, issued, planet, spawning, ui, flow, rng >>

\* bound on the ticks explored while timers are pending
MaxTimerTicks == 3

\* three neighbouring countries and no tribe: 1 and 3 have aggressive leaders,
\* 2 is down to one tile
Kingdoms ==
    [ Villages EXCEPT
        !.tribes = << >>,
        !.countries = << GameCountry(1, 40, 1, TRUE, << Tile(0, 0), Tile(1, 0) >>),
                         GameCountry(2, 41, 1, FALSE, << Tile(2, 0) >>),
                         GameCountry(3, 42, 1, TRUE,
                                     << Tile(3, 0), Tile(4, 0), Tile(5, 0) >>) >> ]

\* the country object with the id: a member of gameState.countries, or an
\* object that was spliced out and is still referenced by a timer callback
Object(g, id) ==
    LET all == g.countries \o g.removed
    IN  all[CHOOSE k \in 1..Len(all) : all[k].id = id]

\* the object with the id replaced, wherever it is
Store(g, c) ==
    [g EXCEPT !.countries = [k \in 1..Len(@) |-> IF @[k].id = c.id THEN c ELSE @[k]],
              !.removed = [k \in 1..Len(@) |-> IF @[k].id = c.id THEN c ELSE @[k]]]

\* declareWar of the single-file simulation, "Find neighboring countries"
borderNeighbors(g, c) ==
    SelectSeq(g.countries,
              LAMBDA o : /\ o.id # c.id
                         /\ \E t \in 1..Len(c.territories) : \E n \in 1..4 :
                               Owns(o.territories, gameNeighbors(c.territories[t])[n]))

\* declareWar(country) with the target drawn as neighbors[pick - 1]: both flags
\* are set and setTimeout registers resolveWar(country, target)
timerWar(g, c, pick) ==
    LET neighbors == borderNeighbors(g, c)
    IN  IF pick > Len(neighbors) THEN g
        ELSE LET target == neighbors[pick]
             IN  IF c.aggressive \/ 2 * Len(c.territories) < Len(target.territories)
                 THEN LET g1 == Store(g, [c EXCEPT !.atWar = TRUE])
                          g2 == Store(g1, [Object(g1, target.id) EXCEPT !.atWar = TRUE])
                      IN  [g2 EXCEPT !.timers = Append(@, [attacker |-> c.id,
                                                           defender |-> target.id])]
                 ELSE g

\* simulateTick, "Update countries": the loop body for the k-th country and on;
\* d.pick[k] = 0 stands for a failed 3% draw.  Population and names are left out
RECURSIVE updateCountries(_, _, _)
updateCountries(g, k, d) ==
    IF k > Len(g.countries) THEN g
    ELSE LET c0 == g.countries[k]
             c1 == [c0 EXCEPT !.age = @ + 1, !.leaderAge = @ + 1]
             c2 == IF c1.age % 50 = 0 /\ d.tech THEN [c1 EXCEPT !.techLevel = @ + 1] ELSE c1
             c3 == IF c2.leaderAge > 65 /\ d.death
                   THEN [c2 EXCEPT !.leaderAge = 40, !.aggressive = d.heir] ELSE c2
             g1 == Store(g, c3)
             g2 == IF c3.age % 15 = 0
                   THEN [g1 EXCEPT !.countries = expandTerritory(@, k, d.lucky)] ELSE g1
             c == g2.countries[k]
             g3 == IF c.age > 30 /\ ~ c.atWar /\ d.pick[k] > 0
                   THEN timerWar(g2, c, d.pick[k]) ELSE g2
         IN  updateCountries(g3, k + 1, d)

\* resolveWar(attacker, defender), called by the timer
resolveWar(g, attacker, defender) ==
    LET g1 == Store(g, [Object(g, attacker) EXCEPT !.atWar = FALSE])
        g2 == Store(g1, [Object(g1, defender) EXCEPT !.atWar = FALSE])
        a == Object(g2, attacker)
        b == Object(g2, defender)
        \* territories.length * (1 + techLevel * 0.2), times 5
        attackerStrength == Len(a.territories) * (5 + a.techLevel)
        defenderStrength == Len(b.territories) * (5 + b.techLevel)
        taken == (Len(b.territories) * 3) \div 10
        rest == SubSeq(b.territories, taken + 1, Len(b.territories))
        g3 == Store(g2, [b EXCEPT !.territories = rest])
        g4 == Store(g3, [a EXCEPT !.territories = @ \o SubSeq(b.territories, 1, taken)])
        index == { k \in 1..Len(g4.countries) : g4.countries[k].id = defender }
    IN  IF 10 * attackerStrength > 13 * defenderStrength
        THEN IF Len(rest) < 2 /\ index # {}
             THEN [g4 EXCEPT !.countries = SelectSeq(@, LAMBDA o : o.id # defender),
                             !.removed = Append(@, Object(g4, defender))]
             ELSE g4
        ELSE g2

\* simulateTick in a world without tribes: the year and the country loop
TickCountries ==
    /\ game.tribes = << >>
    /\ game.year < Villages.year + MaxTimerTicks
    /\ \E pick \in [1..Len(game.countries) -> 0..2], tech \in BOOLEAN, death \in BOOLEAN,
          heir \in BOOLEAN, lucky \in {{}, Tiles} :
          game' = updateCountries([game EXCEPT !.year = @ + 1], 1,
                                  [pick |-> pick, tech |-> tech, death |-> death,
                                   heir |-> heir, lucky |-> lucky])
    /\ UNCHANGED << simVars, detVars, ctlVars, lastTickTime, latentEvents, emitted,
                    loaded, issued, planet, spawning, ui, flow, rng >>

\* a timer set by declareWar runs out: its callback calls resolveWar
TimerFires ==
    /\ \E k \in 1..Len(game.timers) :
          game' = resolveWar([game EXCEPT !.timers = RemoveAt(@, k)],
                             game.timers[k].attacker, game.timers[k].defender)
    /\ UNCHANGED << simVars, detVars, ctlVars, lastTickTime, latentEvents, emitted,
                    loaded, issued, planet, spawning, ui, flow, rng >>

\* ---------------------------------------------------------------------------
\* main.js: generateRivers on a map of RiverWidth x RiverHeight pixels.
\* Heights are in tenths; a river is traced one loop iteration at a time.
\* ---------------------------------------------------------------------------

RiverWidth == 3
RiverHeight == 2
MaxRivers == 2
MaxRiverLength == 200

Pixels == { Tile(x, y) : x \in 0..(RiverWidth - 1), y \in 0..(RiverHeight - 1) }

\* the height maps explored: ocean, hills and mountains in every arrangement
HeightMaps == [Pixels -> {0, 4, 6}]

\* idx(x, y): x wraps, y is clamped
pixelAt(x, y) ==
    Tile((x + RiverWidth) % RiverWidth, Max(0, Min(RiverHeight - 1, y)))

\* before the first river: riverMap is all zero
RiverSource(height) ==
    [ height |-> height, riverMap |-> [p \in Pixels |-> 0], r |-> 0, tracing |-> FALSE,
      x |-> 0, y |-> 0, step |-> 0, path |-> << >>, rivers |-> << >> ]

NoRivers == RiverSource([p \in Pixels |-> 0])

\* "if (n.elev <= currentElev)": water also flows on the level
flowsLevel(elev, currentElev) == elev <= currentElev

\* "if (n.elev < currentElev)"
flowsDown(elev, currentElev) == elev < currentElev

\* the neighbour the river moves to: the first of the neighbours sorted by
\* elevation (a stable sort of left, right, up, down) if it lies lower
lowestNeighbor(f) ==
    LET neighbors == << pixelAt(f.x - 1, f.y), pixelAt(f.x + 1, f.y),
                        pixelAt(f.x, f.y - 1), pixelAt(f.x, f.y + 1) >>
        first == CHOOSE k \in 1..4 :
                    \A j \in 1..4 :
                        \/ f.height[neighbors[k]] < f.height[neighbors[j]]
                        \/ f.height[neighbors[k]] = f.height[neighbors[j]] /\ k <= j
    IN  neighbors[first]

\* the end of the step loop: strength, "if (river.path.length > 10)", r++
riverEnds(f) ==
    [f EXCEPT !.tracing = FALSE, !.r = @ + 1,
              !.rivers = IF Len(f.path) > 10 THEN Append(@, f.r) ELSE @]

\* one iteration of "for (let step = 0; step < maxLength; step++)"
flowStep(f) ==
    LET here == pixelAt(f.x, f.y)
        currentElev == f.height[here]
        reached == [f EXCEPT !.path = Append(@, here)]
        marked == [reached EXCEPT !.riverMap[here] = (f.r + 1) % 256]
        n == lowestNeighbor(f)
    IN  IF currentElev <= 0 THEN riverEnds(reached)
        ELSE IF f.riverMap[here] > 0 /\ f.riverMap[here] # f.r + 1 THEN riverEnds(reached)
        ELSE IF flowsDown(f.height[n], currentElev)
             THEN LET moved == [marked EXCEPT !.x = n.x, !.y = n.y, !.step = @ + 1]
                  IN  IF moved.step < MaxRiverLength THEN moved ELSE riverEnds(moved)
             ELSE riverEnds(marked)

\* the next river starts at a point drawn for riverStarts: 0.3 < h < 0.9
RiverStarts ==
    /\ ~ flow.tracing /\ flow.r < MaxRivers
    /\ \E p \in Pixels :
          /\ flow.height[p] > 3 /\ flow.height[p] < 9
          /\ flow' = [flow EXCEPT !.tracing = TRUE, !.x = p.x, !.y = p.y,
                                  !.step = 0, !.path = << >>]
    /\ UNCHANGED << simVars, detVars, ctlVars, lastTickTime, latentEvents, emitted,
                    loaded, issued, planet, game, spawning, ui, rng >>

\* the river being traced takes one step
RiverFlows ==
    /\ flow.tracing
    /\ flow' = flowStep(flow)
    /\ UNCHANGED << simVars, detVars, ctlVars, lastTickTime, latentEvents, emitted,
                    loaded, issued, planet, game, spawning, ui, rng >>

\* ---------------------------------------------------------------------------
\* SeededRNG (src/unnamed/part_000).  this.state is a JavaScript number; it is
\* kept here as hi * 2^16 + lo with lo below 2^16, which is exact as long as
\* the number is below 2^53.
\* ---------------------------------------------------------------------------

Limb == 65536
MaxDraws == 5

\* new SeededRNG(seed) with seed = hi * 2^16 + lo
SeededRNG(hi, lo) == [hi |-> hi, lo |-> lo, t |-> [hi |-> 0, lo |-> 0], calls |-> 0]

\* the seeds explored, all below 2^32
Seeds == { SeededRNG(hi, lo) : hi \in {0, 1, 255, 32768, 65535},
                               lo \in {0, 1, 255, 32768, 65535} }

\* "let t = this.state += 0x6D2B79F5": the sum is stored as it is; t is what
\* Math.imul, ^ and >>> then see, the sum modulo 2^32 (ToInt32)
rngNext(g) ==
    LET lo == g.lo + 31221                \* 0x79F5
        hi == g.hi + 27947 + lo \div Limb \* 0x6D2B and the carry
    IN  [ hi |-> hi, lo |-> lo % Limb,
          t |-> [hi |-> hi % Limb, lo |-> lo % Limb], calls |-> g.calls + 1 ]

\* a call of rng.next()
NextRandom ==
    /\ rng.calls < MaxDraws
    /\ rng' = rngNext(rng)
    /\ UNCHANGED << simVars, detVars, ctlVars, lastTickTime, latentEvents, emitted,
                    loaded, issued, planet, game, spawning, ui, flow >>

\* ---------------------------------------------------------------------------
\* main.js: generatePlanet and the callbacks that can run at its awaits
\* ---------------------------------------------------------------------------

\* chunks of rows between two "await sleep(0)" of one loop
MapRows == 2
\* camera positions a drag can leave, and zoom steps of the wheel
MaxCamera == 2

\* the loops of generatePlanet and renderPlanetTexture that await
Stages == << "continents", "mountains", "temperature", "climate", "texture" >>

\* before the play button: planetData and basePlanetTexture are null.  An array
\* is "none" (not allocated), "partial" (allocated, rows missing) or "full".
NoPlanet ==
    [ stage |-> 0, row |-> 0,
      height |-> "none", temperature |-> "none", moisture |-> "none",
      rivers |-> "none", tiles |-> "none",
      planetData |-> << >>, basePlanetTexture |-> "null",
      cameraX |-> 0, zoom |-> 0, isDragging |-> FALSE, seen |-> {} ]

\* generatePlanet is suspended in "await sleep(0)"
Suspended(g) == g.stage \in 1..Len(Stages)

\* planetData assigned before "await renderPlanetTexture(...)"
publishedEarly(g) ==
    IF g.stage >= 5
    THEN << [ f \in {"height", "temperature", "moisture", "rivers", "tiles"} |-> g[f] ] >>
    ELSE g.planetData

\* "planetData = { height, temperature, moisture, rivers, tiles, seed }" after
\* renderPlanetTexture has returned
published(g) ==
    IF g.stage > Len(Stages)
    THEN << [ f \in {"height", "temperature", "moisture", "rivers", "tiles"} |-> g[f] ] >>
    ELSE g.planetData

\* generatePlanet from one await to the next, or to its end: the rest of the
\* loop it is in, or the code up to the first await of the next loop.
\* generateRivers and generateTileSystem have no sleep and run in one piece.
resume(g) ==
    LET name == Stages[g.stage]
        next ==
            IF g.row < MapRows THEN [g EXCEPT !.row = @ + 1]
            ELSE IF name = "continents"
                 THEN [g EXCEPT !.stage = 2, !.row = 1]
            ELSE IF name = "mountains"
                 THEN [g EXCEPT !.stage = 3, !.row = 1,
                                !.height = "full", !.temperature = "partial"]
            ELSE IF name = "temperature"
                 THEN [g EXCEPT !.stage = 4, !.row = 1,
                                !.temperature = "full", !.moisture = "partial"]
            ELSE IF name = "climate"
                 THEN [g EXCEPT !.stage = 5, !.row = 1, !.moisture = "full",
                                !.rivers = "full", !.tiles = "full"]
            ELSE [g EXCEPT !.stage = 6, !.row = 0, !.basePlanetTexture = "complete"]
    IN  [next EXCEPT !.planetData = published(next)]

\* renderCamera: returns without a texture, draws from basePlanetTexture otherwise
renderCamera(g) ==
    IF g.basePlanetTexture = "null" THEN g
    ELSE [g EXCEPT !.seen = @ \cup {<< "basePlanetTexture", g.basePlanetTexture >>}]

\* the click on playBtn: generatePlanet up to its first await
GeneratePlanet ==
    /\ planet.stage = 0
    /\ planet' = [planet EXCEPT !.stage = 1, !.row = 1, !.height = "partial",
                                !.temperature = "partial", !.moisture = "partial"]
    /\ UNCHANGED << simVars, detVars, ctlVars, lastTickTime, latentEvents, emitted,
                    loaded, issued, game, spawning, ui, flow, rng >>

\* the timer of sleep(0) fires
Resume ==
    /\ Suspended(planet)
    /\ planet' = resume(planet)
    /\ UNCHANGED << simVars, detVars, ctlVars, lastTickTime, latentEvents, emitted,
                    loaded, issued, game, spawning, ui, flow, rng >>

\* resizeCanvases: "if (planetData) renderCamera()"
ResizeCanvases ==
    /\ planet' = IF planet.planetData # << >>
                 THEN renderCamera([planet EXCEPT
                                       !.seen = @ \cup {<< "planetData", planet.planetData[1] >>}])
                 ELSE planet
    /\ planet' # planet
    /\ UNCHANGED << simVars, detVars, ctlVars, lastTickTime, latentEvents, emitted,
                    loaded, issued, game, spawning, ui, flow, rng >>

\* mousedown and mouseup on the map
MouseButton ==
    /\ planet' = [planet EXCEPT !.isDragging = ~ @]
    /\ UNCHANGED << simVars, detVars, ctlVars, lastTickTime, latentEvents, emitted,
                    loaded, issued, game, spawning, ui, flow, rng >>

\* mousemove while dragging: the camera moves, renderCamera runs
MouseMove ==
    /\ planet.isDragging
    /\ \E x \in 0..MaxCamera : planet' = renderCamera([planet EXCEPT !.cameraX = x])
    /\ planet' # planet
    /\ UNCHANGED << simVars, detVars, ctlVars, lastTickTime, latentEvents, emitted,
                    loaded, issued, game, spawning, ui, flow, rng >>

\* the wheel over the map: the zoom changes, renderCamera runs
Wheel ==
    /\ \E z \in 0..MaxCamera : planet' = renderCamera([planet EXCEPT !.zoom = z])
    /\ planet' # planet
    /\ UNCHANGED << simVars, detVars, ctlVars, lastTickTime, latentEvents, emitted,
                    loaded, issued, game, spawning, ui, flow, rng >>

Start(s) ==
    /\ terrain = s.terrain /\ year = s.year /\ tribes = s.tribes
    /\ countries = s.countries /\ heap = s.heap /\ activeWars = s.activeWars
    /\ globalTension = s.globalTension /\ techLevel = s.techLevel /\ stats = s.stats
    /\ events = s.events /\ idCounter = s.idCounter /\ pc = s.pc /\ idx = s.idx
    /\ clock = 0 /\ phaseLog = << >>
    /\ runA = << >> /\ runB = << >> /\ script = << >>
    /\ speed = 2 /\ running = FALSE /\ lastTickTime = 0
    /\ latentEvents = << >> /\ emitted = [surface |-> << >>, latent |-> << >>]
    /\ loaded = << >> /\ issued = << >>
    /\ planet = NoPlanet
    /\ game = IF "game" \in DOMAIN s THEN s.game ELSE Villages
    /\ spawning = NotSampled
    /\ ui = NoUi
    /\ flow = IF "flow" \in DOMAIN s THEN s.flow ELSE NoRivers
    /\ rng = IF "rng" \in DOMAIN s THEN s.rng ELSE SeededRNG(0, 0)

Init ==
    \E s \in {Constructed(IslandMap), Constructed(OceanMap), TribeLands, TwoCountries,
              TenseCountries} :
        Start(s)

Next == Initialize \/ TickBegin \/ TribeStep \/ CountryStep \/ WarStep \/ AITick \/ TechCheck

Spec == Init /\ [][Next]_vars

WarInit == \E s \in {WarDeclared(SmallTerritory)} : Start(s)

WarNext == WarTickBegin \/ WarStep \/ AITick \/ TechCheck

WarSpec == WarInit /\ [][WarNext]_vars

----------------------------------------------------------------------------
(* Two runs from one seed in one page: main.js builds a Simulation, the player *)
(* returns to the menu and starts again with the same seed.  The rng draws of  *)
(* the second run are those of the first (script); the module-level idCounter  *)
(* of utils.js and the wall clock are what the two runs share.                 *)

\* IOManager.serializeTribe
serializeTribe(t) ==
    [ id |-> t.id, population |-> t.population, age |-> t.age,
      territories |-> t.territories, x |-> t.x, y |-> t.y ]

\* IOManager.serializeCountry
serializeCountry(c) ==
    [ id |-> c.id, population |-> c.population, age |-> c.age,
      territories |-> c.territories, capitalX |-> c.capitalX, capitalY |-> c.capitalY,
      cities |-> c.cities, leader |-> c.leader, techLevel |-> c.techLevel,
      unrest |-> c.unrest, atWar |-> c.atWar, allies |-> c.allies ]

\* IOManager.saveWorld; now is Date.now()
saveWorld(now) ==
    [ version |-> 1, year |-> year, techLevel |-> techLevel,
      tribes |-> [k \in 1..Len(tribes) |-> serializeTribe(tribes[k])],
      countries |-> [k \in 1..Len(countries) |-> serializeCountry(heap[countries[k]])],
      stats |-> stats, timestamp |-> now ]

\* Simulation.initialize with the rng of the seed: the first run draws, the
\* second run repeats the draws
SeededInitialize ==
    /\ pc = "new"
    /\ \E outcomes \in (IF script = << >> THEN SamplingOutcomes ELSE {script[1]}) :
          LET st == initialize([tribes |-> tribes, counter |-> idCounter, events |-> events],
                               outcomes, 1)
          IN  /\ tribes' = st.tribes
              /\ idCounter' = st.counter
              /\ events' = st.events
              /\ script' = << outcomes >>
    /\ pc' = "idle"
    /\ UNCHANGED << terrain, year, countries, heap, activeWars, globalTension,
                    techLevel, stats, clock, idx, phaseLog, runA, runB >>
    /\ UNCHANGED auxVars

\* IOManager.saveWorld called on the running simulation
SaveWorld ==
    /\ pc = "idle"
    /\ IF runA = << >>
       THEN runA' = << saveWorld(clock) >> /\ runB' = runB
       ELSE runB' = << saveWorld(clock) >> /\ runA' = runA
    /\ pc' = "saved"
    /\ UNCHANGED << terrain, year, tribes, countries, heap, activeWars, globalTension,
                    techLevel, stats, events, idCounter, clock, idx, phaseLog, script >>
    /\ UNCHANGED auxVars

\* returnToMenu, then startNewWorld and initializeSimulation with the same seed:
\* a new Simulation; idCounter is module state and stays
Restart ==
    /\ pc = "saved"
    /\ runB = << >>
    /\ tribes' = << >>
    /\ events' = << >>
    /\ pc' = "new"
    /\ UNCHANGED << terrain, year, countries, heap, activeWars, globalTension,
                    techLevel, stats, idCounter, clock, idx, phaseLog >>
    /\ UNCHANGED detVars
    /\ UNCHANGED auxVars

\* the wall clock advances
ClockTick ==
    /\ clock < MaxClock
    /\ clock' = clock + 1
    /\ UNCHANGED << terrain, year, tribes, countries, heap, activeWars, globalTension,
                    techLevel, stats, events, idCounter, pc, idx, phaseLog >>
    /\ UNCHANGED detVars
    /\ UNCHANGED auxVars

DetInit == Start(Constructed(IslandMap))

DetNext == SeededInitialize \/ SaveWorld \/ Restart \/ ClockTick

DetSpec == DetInit /\ [][DetNext]_vars

NeighborSpec ==
    Start(FarCountries)
    /\ [][TickBegin \/ CountryStep \/ WarStep \/ AITick \/ TechCheck]_vars

CrowdSpec == Start(Crowded) /\ [][TribeStep \/ AITick \/ TechCheck]_vars

FormationSpec ==
    Start(SplitLands)
    /\ [][TickBegin \/ TribeStep \/ CountryStep \/ AITick \/ TechCheck]_vars

DiplomacySpec ==
    Start(ThreeCountries)
    /\ [][TickBegin \/ CountryStep \/ WarStep \/ AITick \/ TechCheck]_vars

\* a late age, in the country loop of a tick with the countries 6 down to 2
\* done: six small countries in a row, 105 million people together, which is
\* a techScore above 10000, all at the global techLevel
LateAge(level, yr) ==
    [ Constructed(ContinentMap) EXCEPT
        !.year = yr, !.pc = "countries", !.idx = 1, !.idCounter = 30,
        !.techLevel = level,
        !.stats = [totalDeaths |-> 0, totalWars |-> 0, totalCivilizations |-> 6],
        !.countries = << 1, 2, 3, 4, 5, 6 >>,
        !.heap = [ k \in 1..6 |->
                     [ CountryAt(k, IF k = 1 THEN 5000000 ELSE 20000000, yr - 1 - k,
                                 IF k = 1 THEN << Tile(0, 2), Tile(0, 1), Tile(0, 3) >>
                                 ELSE << Tile(k - 1, 2) >>,
                                 LeaderAt(10 + k, 55, 5, Traits(20, 60, 50, 10, 50, 50)),
                                 FALSE)
                       EXCEPT !.techLevel = level ] ] ]

TechSpec ==
    (\E level \in {9, 10}, yr \in {MatureYear + 1, MatureYear + 2} : Start(LateAge(level, yr)))
    /\ [][CountryStep \/ AITick \/ TechCheck]_vars

PlanetSpec ==
    Start(Constructed(OceanMap))
    /\ [][GeneratePlanet \/ Resume \/ ResizeCanvases \/ MouseButton \/ MouseMove
          \/ Wheel]_vars

BorderSpec ==
    Start(Borderlands)
    /\ [][TickBegin \/ CountryStep \/ WarStep \/ AITick \/ TechCheck]_vars

SpawnSpec == Start(Constructed(IslandMap)) /\ [][SampleLocation \/ PlaceTribe]_vars

TimerSpec ==
    Start([game |-> Kingdoms] @@ Constructed(OceanMap))
    /\ [][TickCountries \/ TimerFires]_vars

RiverSpec ==
    (\E h \in HeightMaps : Start([flow |-> RiverSource(h)] @@ Constructed(OceanMap)))
    /\ [][RiverStarts \/ RiverFlows]_vars

RngSpec ==
    (\E g \in Seeds : Start([rng |-> g] @@ Constructed(OceanMap)))
    /\ [][NextRandom]_vars

GameSpec == Start(Constructed(OceanMap)) /\ [][SimulateTick \/ TribeIteration]_vars

\* ---------------------------------------------------------------------------
\* Simulation.getState
\* ---------------------------------------------------------------------------

\* getTotalPopulation that forgets the countries
getTotalPopulationTribesOnly(ts, cs, h) ==
    LET RECURSIVE loop(_, _)
        loop(k, total) == IF k > Len(ts) THEN total ELSE loop(k + 1, total + ts[k].population)
    IN  loop(1, 0)

\* Simulation.getTotalPopulation: the two loops over tribes and countries
getTotalPopulation(ts, cs, h) ==
    LET RECURSIVE loop(_, _)
        loop(k, total) ==
            IF k <= Len(ts) THEN loop(k + 1, total + ts[k].population)
            ELSE IF k <= Len(ts) + Len(cs) THEN loop(k + 1, total + h[cs[k - Len(ts)]].population)
            ELSE total
    IN  loop(1, 0)

getState ==
    [ year |-> year, tribes |-> Len(tribes), countries |-> Len(countries),
      techLevel |-> techLevel, wars |-> Len(activeWars),
      totalPopulation |-> getTotalPopulation(tribes, countries, heap) ]

\* ---------------------------------------------------------------------------
\* The driver loop: start, stop, speed and frames
\* ---------------------------------------------------------------------------

MaxElapsed == 2000

\* Simulation.tickIntervals: ms per tick for the speeds 0..4
tickIntervals == << 0, 2000, 600, 200, 50 >>

\* shouldTick that forgets the pause
shouldTickAlways(currentTime) == running /\ currentTime - lastTickTime >= tickIntervals[speed + 1]

\* Simulation.shouldTick
shouldTick(currentTime) ==
    IF speed = 0 \/ ~ running
    THEN FALSE
    ELSE currentTime - lastTickTime >= tickIntervals[speed + 1]

\* Simulation.start
StartSimulation ==
    /\ pc = "idle"
    /\ ~ running
    /\ running' = TRUE
    /\ lastTickTime' = clock
    /\ UNCHANGED << simVars, detVars, ioVars, speed >>

\* Simulation.stop
StopSimulation ==
    /\ pc = "idle"
    /\ running
    /\ running' = FALSE
    /\ UNCHANGED << simVars, detVars, ioVars, speed, lastTickTime >>

\* Simulation.setSpeed, from a time button or the space key
SetSpeed ==
    /\ pc = "idle"
    /\ \E requested \in {0 - 1, 0, 2, 5} :
          /\ speed' = Max(0, Min(4, requested))
          /\ speed' # speed
    /\ UNCHANGED << simVars, detVars, ioVars, running, lastTickTime >>

\* gameLoop(timestamp): one animation frame.  At speed 4 the loop asks
\* shouldTick ten times with the same timestamp; the first tick moves
\* lastTickTime to performance.now(), not before the timestamp, and the other
\* nine answers are false.
Frame ==
    /\ shouldTick(clock)
    /\ TickBegin

\* time between two frames
TimePasses ==
    /\ pc = "idle"
    /\ clock + tickIntervals[2 + 1] <= MaxElapsed
    /\ clock' = clock + tickIntervals[2 + 1]
    /\ UNCHANGED << terrain, year, tribes, countries, heap, activeWars, globalTension,
                    techLevel, stats, events, idCounter, pc, idx, phaseLog >>
    /\ UNCHANGED << detVars, auxVars >>

PauseSpec ==
    Start(TribeLands)
    /\ [][StartSimulation \/ StopSimulation \/ SetSpeed \/ Frame \/ TimePasses
          \/ TribeStep \/ CountryStep \/ AITick \/ TechCheck]_vars

\* ---------------------------------------------------------------------------
\* Loading a save
\* ---------------------------------------------------------------------------

\* JSON.stringify of plain data: the text of a file
stringify(data) == [text |-> data, complete |-> TRUE]

\* IOManager.loadWorld: JSON.parse in a try; the parsed data, or null (no data)
\* after console.error
loadWorld(jsonString) ==
    IF jsonString.complete
    THEN [data |-> << jsonString.text >>, error |-> FALSE]
    ELSE [data |-> << >>, error |-> TRUE]

\* the files a user can hand to the file input: the download of this run, the
\* download cut short, and the download edited by hand so that a new tribe
\* stands on a tile of the first entity or the first country names an ally
\* that is not in the file
SaveFiles(save) ==
    LET entities == save.tribes \o save.countries
        squatter == [ id |-> 0 - 1, population |-> 50, age |-> 0,
                      territories |-> << entities[1].territories[1] >>,
                      x |-> entities[1].territories[1].x,
                      y |-> entities[1].territories[1].y ]
    IN  { stringify(save), [stringify(save) EXCEPT !.complete = FALSE] }
        \cup (IF entities # << >> /\ entities[1].territories # << >>
              THEN { stringify([save EXCEPT !.tribes = Append(@, squatter)]) }
              ELSE {})
        \cup (IF save.countries # << >>
              THEN { stringify([save EXCEPT !.countries[1].allies = Append(@, 0 - 1)]) }
              ELSE {})

\* the loadWorldBtn handler: uploadSave reads the file, calls loadWorld and
\* hands non-null data to a callback that only logs
LoadWorld ==
    /\ pc = "saved"
    /\ \E file \in SaveFiles(runA[1]) :
          loaded' = << [file |-> file] @@ loadWorld(file) >>
    /\ pc' = "loaded"
    /\ UNCHANGED << terrain, year, tribes, countries, heap, activeWars, globalTension,
                    techLevel, stats, events, idCounter, clock, idx, phaseLog >>
    /\ UNCHANGED << detVars, ctlVars, lastTickTime, latentEvents, emitted, issued, planet, game, spawning, ui, flow, rng >>

IoSpec ==
    Init /\ [][Initialize \/ TickBegin \/ TribeStep \/ CountryStep \/ WarStep \/ AITick
               \/ TechCheck \/ SaveWorld \/ LoadWorld]_vars

----------------------------------------------------------------------------
(* Entity ids.  The classes of Entities.js take their ids from generateID;    *)
(* CountryAI.buildCity builds a city id from Date.now() and rng.next(); the   *)
(* tribes of the single-file simulation (src/unnamed/part_001) take           *)
(* Date.now() + Math.random().  issued records every id in the order given.   *)

\* bound on the ids given out in one exploration
MaxIds == 3

\* Math.random() as it survives the addition to Date.now(): a double near 1.7e12
\* has a spacing of 2^-12, so the sum takes one of 4096 values per millisecond;
\* two of them
RandomFractions == {0, 1}

\* Date.now() + Math.random()
SplitTribeId(t, r) == [src |-> "clock+random", n |-> 0, t |-> t, r |-> r]

\* a constructor of Entities.js draws its id
GenerateId ==
    /\ Len(issued) < MaxIds
    /\ idCounter' = generateID(idCounter)
    /\ issued' = Append(issued, CounterCityId(generateID(idCounter)))
    /\ UNCHANGED << terrain, year, tribes, countries, heap, activeWars, globalTension,
                    techLevel, stats, events, clock, pc, idx, phaseLog >>
    /\ UNCHANGED << detVars, ctlVars, lastTickTime, latentEvents, emitted, loaded, planet, game, spawning, ui, flow, rng >>

\* CountryAI.buildCity names the city; the draw of the seeded generator is
\* identified by its position in the stream, so two draws never coincide
BuildCity ==
    /\ Len(issued) < MaxIds
    /\ issued' = Append(issued, ClockCityId(clock, Len(issued)))
    /\ UNCHANGED << simVars, detVars, ctlVars, lastTickTime, latentEvents, emitted, loaded, planet, game, spawning, ui, flow, rng >>

\* splitTribe and the Tribe constructor of part_001
SplitTribe ==
    /\ Len(issued) < MaxIds
    /\ \E r \in RandomFractions : issued' = Append(issued, SplitTribeId(clock, r))
    /\ UNCHANGED << simVars, detVars, ctlVars, lastTickTime, latentEvents, emitted, loaded, planet, game, spawning, ui, flow, rng >>

IdSpec ==
    Start(Constructed(IslandMap))
        /\ [][GenerateId \/ BuildCity \/ SplitTribe \/ ClockTick]_vars

----------------------------------------------------------------------------
(* The event log on its own: logEvent called with either type *)

\* bound on the logEvent calls explored
MaxLogged == 203

\* EventSystem.logEvent(year, message, location, type); the year numbers the
\* calls of a type
LogEvent ==
    /\ Len(emitted.surface) + Len(emitted.latent) < MaxLogged
    /\ \E type \in {"surface", "latent"} :
          LET ev == Event(type, Len(emitted[type]) + 1, NoLocation, 0, 0)
          IN  /\ IF type = "surface"
                 THEN events' = logEvent(events, ev) /\ UNCHANGED latentEvents
                 ELSE latentEvents' = Append(latentEvents, ev) /\ UNCHANGED events
              /\ emitted' = [emitted EXCEPT ![type] = Append(@, ev)]
    /\ UNCHANGED << terrain, year, tribes, countries, heap, activeWars, globalTension,
                    techLevel, stats, idCounter, clock, pc, idx, phaseLog >>
    /\ UNCHANGED << detVars, ctlVars, lastTickTime, loaded, issued, planet, game, spawning, ui, flow, rng >>

\* EventSystem.getRecentEvents: this.events.slice(-count)
getRecentEvents(log, count) == SubSeq(log, Max(1, Len(log) - count + 1), Len(log))

\* gameLoop, "Update event log"
updateEventLog(u, log) ==
    LET recent == getRecentEvents(log, 50)
    IN  IF Len(recent) > u.lastEventCount
        THEN [ delivered |-> u.delivered \o SubSeq(recent, u.lastEventCount + 1, Len(recent)),
               lastEventCount |-> Len(recent) ]
        ELSE u

\* one frame of gameLoop: the tick logs n surface events, then the event log
\* of the page is updated
GameLoop ==
    /\ \E n \in 1..2 :
          LET first == Event("surface", Len(emitted.surface) + 1, NoLocation, 0, 0)
              second == Event("surface", Len(emitted.surface) + 2, NoLocation, 0, 0)
              logged == IF n = 1 THEN << first >> ELSE << first, second >>
          IN  /\ Len(emitted.surface) + n <= MaxLogged
              /\ events' = IF n = 1 THEN logEvent(events, first)
                           ELSE logEvent(logEvent(events, first), second)
              /\ emitted' = [emitted EXCEPT !.surface = @ \o logged]
    /\ ui' = updateEventLog(ui, events')
    /\ UNCHANGED << terrain, year, tribes, countries, heap, activeWars, globalTension,
                    techLevel, stats, idCounter, clock, pc, idx, phaseLog >>
    /\ UNCHANGED << detVars, ctlVars, lastTickTime, latentEvents, loaded, issued,
                    planet, game, spawning, flow, rng >>

UiSpec == Start(Constructed(IslandMap)) /\ [][GameLoop]_vars

LogSpec == Start(Constructed(IslandMap)) /\ [][LogEvent]_vars

----------------------------------------------------------------------------
(* Properties *)

\* the territories of every tribe and of every country of the countries list
Holdings ==
    [k \in 1..Len(tribes) |-> tribes[k].territories]
        \o [k \in 1..Len(countries) |-> heap[countries[k]].territories]

\* how many entities list the tile
OwnerCount(tile) == Cardinality({ k \in 1..Len(Holdings) : Owns(Holdings[k], tile) })

LastEvent == events[Len(events)]

\* a tick has run to its end
TickReturned == pc = "idle" /\ phaseLog # << >>

\* C1: after initialize() and after every tick(), every tile is listed in the
\* territories of at most one entity among tribes and countries.
OwnershipDisjoint ==
    pc = "idle" => \A t \in Tiles : OwnerCount(t) <= 1

\* C2: after initialize() and after every tick(), every tile owned by a tribe or
\* a country satisfies World.isHabitable (terrain from COAST to HILLS).
LandOnly ==
    pc = "idle" =>
        \A k \in 1..Len(Holdings) : \A t \in SeqToSet(Holdings[k]) : isHabitable(t.x, t.y)

\* C2 witness: a tick has returned with a tribe standing on a tile other than
\* the one it was spawned on, beside the ocean
LandOnlyWitness ==
    /\ TickReturned
    /\ year = 1
    /\ \E k \in 1..Len(tribes) :
          /\ events[k].type = "tribeFormed"
          /\ events[k].a = tribes[k].id
          /\ events[k].location # tribes[k].territories[1]
          /\ \E n \in SeqToSet(Neighbors4(tribes[k].territories[1])) : ~ isHabitable(n.x, n.y)

\* C3: two runs from the same seed, saved after the same number of ticks, have
\* the same serialized year, techLevel, stats, tribes and countries, ids included.
SameSeedSameSave ==
    (runA # << >> /\ runB # << >>) =>
        [runA[1] EXCEPT !.timestamp = 0] = [runB[1] EXCEPT !.timestamp = 0]

\* C4: a war that is still in activeWars when WarManager.tick has returned has
\* been ticked fewer than 34 times: no war outlives 34 calls.
WarTermination ==
    pc \in {"ai", "tech", "idle"} =>
        \A k \in 1..Len(activeWars) : year - activeWars[k].startYear + 1 < 34

\* C4 witness: the war declared in year 400 went through twenty ticks without a
\* conquest and was removed in the twentieth
WarTerminationWitness ==
    /\ pc = "ai"
    /\ activeWars = << >>
    /\ year = MatureYear + 20
    /\ events # << >>
    /\ LastEvent.type = "warEnded"
    /\ LastEvent.year = year

\* C5: a war tick that ends the war with the defender holding fewer than two
\* territories ends it as an attacker victory.
DefenderCollapseFirst ==
    ( /\ pc = "ai"
      /\ events # << >>
      /\ LastEvent.type = "warEnded"
      /\ LastEvent.year = year
      /\ Len(heap[LastEvent.b].territories) < 2 )
        => LastEvent.winner = LastEvent.a

\* the territoryConquered events a step appends to the log
NewConquests ==
    { j \in (Len(events) + 1)..Len(events') : events'[j].type = "territoryConquered" }

PopulationSanity ==
    pc = "idle" =>
        /\ \A k \in 1..Len(tribes) : tribes[k].population >= 10
        /\ \A k \in 1..Len(countries) : heap[countries[k]].population >= 50

\* C7 witness: a tick has returned in which a war took casualties from both
\* sides after the country loop
PopulationWitness ==
    /\ TickReturned
    /\ \E k \in 1..Len(activeWars) :
          /\ activeWars[k].attackerLosses > 0
          /\ activeWars[k].defenderLosses > 0
          /\ activeWars[k].attacker \in SeqToSet(countries)
          /\ activeWars[k].defender \in SeqToSet(countries)

\* C8 as stated: the year, the age of every tribe and country and the
\* yearsInPower of every country's leader never decrease.
CountersNeverDecrease ==
    [][ /\ year' >= year
        /\ \A i \in 1..Len(tribes) : \A j \in 1..Len(tribes') :
              tribes'[j].id = tribes[i].id => tribes'[j].age >= tribes[i].age
        /\ \A c \in DOMAIN heap \cap DOMAIN heap' :
              /\ heap'[c].age >= heap[c].age
              /\ heap'[c].leader.yearsInPower >= heap[c].leader.yearsInPower
      ]_vars

\* C8 amended: the year and the age of every tribe and country never decrease;
\* yearsInPower never decreases while the same leader is in office, and the
\* leader who succeeds starts at 0.
CountersMonotonePerLeader ==
    [][ /\ year' >= year
        /\ \A i \in 1..Len(tribes) : \A j \in 1..Len(tribes') :
              tribes'[j].id = tribes[i].id => tribes'[j].age >= tribes[i].age
        /\ \A c \in DOMAIN heap \cap DOMAIN heap' :
              /\ heap'[c].age >= heap[c].age
              /\ IF heap'[c].leader.id = heap[c].leader.id
                 THEN heap'[c].leader.yearsInPower >= heap[c].leader.yearsInPower
                 ELSE heap'[c].leader.yearsInPower = 0
      ]_vars

\* C8 witness: a tick has returned in which a leader died and the successor
\* took office
SuccessionWitness ==
    /\ TickReturned
    /\ events # << >>
    /\ \E j \in 1..Len(events) :
          /\ events[j].type = "leaderDied"
          /\ events[j].year = year
          /\ \E k \in 1..Len(countries) :
                /\ heap[countries[k]].leader.id = events[j].b
                /\ heap[countries[k]].leader.yearsInPower = 0
                /\ heap[countries[k]].age > 0

\* the place of a phase in Simulation.tick
PhaseRank(p) ==
    CASE p = "tribes" -> 1 [] p = "countries" -> 2 [] p = "wars" -> 3
      [] p = "ai" -> 4 [] p = "tech" -> 5

\* C9: within a tick the phases run in the order tribes, countries, wars,
\* tension decay, tech check; the tech check runs only in years divisible by
\* 100 and last; once the wars phase is over every war has advanced this year;
\* a tick that has returned went through the tension decay and, in a year
\* divisible by 100, the tech check.
TickOrdering ==
    /\ \A i \in 1..Len(phaseLog) : \A j \in i..Len(phaseLog) :
          PhaseRank(phaseLog[i]) <= PhaseRank(phaseLog[j])
    /\ \A i \in 1..Len(phaseLog) :
          /\ phaseLog[i] = "tech" => (year % 100 = 0 /\ i = Len(phaseLog))
          /\ phaseLog[i] = "ai" => \A j \in 1..Len(phaseLog) : phaseLog[j] = "ai" => j = i
    /\ (pc \in {"ai", "tech"} \/ TickReturned) =>
          \A k \in 1..Len(activeWars) :
              /\ activeWars[k].currentYear = year
              /\ activeWars[k].attackerExhaustion
                    = 5 * (year - activeWars[k].startYear + 1)
    /\ pc = "tech" => phaseLog[Len(phaseLog)] = "ai"
    /\ TickReturned =>
          /\ phaseLog[Len(phaseLog)] = (IF year % 100 = 0 THEN "tech" ELSE "ai")
          /\ \E i \in 1..Len(phaseLog) : phaseLog[i] = "ai"

\* C9 witness: the tick of year 400 has returned after a tribe, two countries,
\* a war declared in the country loop, the tension decay and the tech check
TickOrderingWitness ==
    /\ TickReturned
    /\ year = MatureYear + 1
    /\ phaseLog = << "tribes", "countries", "countries", "wars", "ai", "tech" >>
    /\ Len(activeWars) = 1

\* C10: when initialize() has returned, between 10 and 16 tribes are placed.
InitializePlacesTribes ==
    (pc = "idle" /\ year = 0) =>
        /\ Len(tribes) >= MinInitialTribes
        /\ Len(tribes) <= MaxInitialTribes

\* C11: every id given out differs from every id given out before it.
IdsNeverRepeat ==
    \A i \in 1..Len(issued) : \A j \in 1..Len(issued) :
        i # j => issued[i] # issued[j]

\* C12: the surface list holds at most 200 events, and they are the most recent
\* surface events in the order they were logged; the latent list holds every
\* latent event; no entry is changed or moved.
EventLogCap ==
    LET surface == emitted.surface
        kept == Min(MaxVisibleEvents, Len(surface))
    IN  /\ Len(events) <= MaxVisibleEvents
        /\ events = SubSeq(surface, Len(surface) - kept + 1, Len(surface))
        /\ latentEvents = emitted.latent

\* C12 witness: more than 200 surface events were logged, the oldest were
\* evicted, and a latent event was logged as well
EventLogCapWitness ==
    /\ Len(emitted.surface) > MaxVisibleEvents
    /\ Len(events) = MaxVisibleEvents
    /\ events[1].year > 1
    /\ latentEvents # << >>

\* C13: globalTension stays within [0, 1] (0..100 hundredths).
TensionBounded == globalTension >= 0 /\ globalTension <= 100

\* C13 witness: a war declaration has raised the tension to its cap in a tick
\* that started from 0.95, and the tick has returned with the decay applied
TensionWitness ==
    /\ TickReturned
    /\ globalTension = 99
    /\ \E k \in 1..Len(activeWars) : activeWars[k].startYear = year

\* what the next tick reads of a simulation
Snapshot ==
    [ year |-> year, techLevel |-> techLevel, stats |-> stats, tribes |-> tribes,
      countries |-> [k \in 1..Len(countries) |-> heap[countries[k]]],
      activeWars |-> activeWars, globalTension |-> globalTension ]

\* a <= b for plain data: every field of a is a field of b with the same value
Restores(data) ==
    /\ DOMAIN Snapshot \subseteq DOMAIN data
    /\ data.year = year /\ data.techLevel = techLevel /\ data.stats = stats
    /\ data.activeWars = activeWars /\ data.globalTension = globalTension
    /\ Len(data.tribes) = Len(tribes) /\ Len(data.countries) = Len(countries)
    /\ \A k \in 1..Len(tribes) :
          /\ DOMAIN tribes[k] \subseteq DOMAIN data.tribes[k]
          /\ \A f \in DOMAIN tribes[k] : data.tribes[k][f] = tribes[k][f]
    /\ \A k \in 1..Len(countries) :
          /\ DOMAIN heap[countries[k]] \subseteq DOMAIN data.countries[k]
          /\ \A f \in DOMAIN heap[countries[k]] :
                data.countries[k][f] = heap[countries[k]][f]

\* C14: loading the output of saveWorld gives back the state that was saved.
SaveRoundTrip ==
    \A k \in 1..Len(loaded) :
        loaded[k].file = stringify(saveWorld(loaded[k].file.text.timestamp))
            => loaded[k].data # << >> /\ Restores(loaded[k].data[1])

\* a tile that two entities of a save hold
TwoOwners(save) ==
    LET entities == save.tribes \o save.countries
    IN  \E a, b \in 1..Len(entities) :
            /\ a < b
            /\ \E i \in 1..Len(entities[a].territories), j \in 1..Len(entities[b].territories) :
                  entities[a].territories[i] = entities[b].territories[j]

\* an ally id of a save that no country of the save has
UnknownId(save) ==
    \E k \in 1..Len(save.countries) :
        \E j \in 1..Len(save.countries[k].allies) :
            \A n \in 1..Len(save.countries) :
                save.countries[n].id # save.countries[k].allies[j]

\* C15: a save that is malformed, has a tile with two owners or names an
\* unknown id is rejected: no data comes back and an error is raised.
CorruptSaveRejected ==
    \A k \in 1..Len(loaded) :
        (\/ ~ loaded[k].file.complete
         \/ TwoOwners(loaded[k].file.text)
         \/ UnknownId(loaded[k].file.text))
            => loaded[k].data = << >> /\ loaded[k].error

\* the times around every interval after the last tick, and the ends of the clock
FrameTimes ==
    {0, MaxElapsed} \cup { lastTickTime + tickIntervals[s + 1] + d : s \in 0..4, d \in {0 - 1, 0, 1} }

\* C16: while speed is 0 or the simulation is not running, shouldTick is false
\* for every time and year, tribes, countries and wars do not change; at a
\* speed in 1..4 shouldTick is true again once the interval of the speed has
\* passed since the last tick.
PauseResume ==
    [][/\ \A t \in FrameTimes :
             /\ (speed = 0 \/ ~ running) => ~ shouldTick(t)
             /\ (speed \in 1..4 /\ running /\ t - lastTickTime >= tickIntervals[speed + 1])
                    => shouldTick(t)
       /\ (speed = 0 \/ ~ running)
             => UNCHANGED << year, tribes, countries, heap, activeWars >>]_vars

\* C16 witness: a tick has run, the simulation was paused afterwards and more
\* than the interval of the normal speed has gone by without a tick
PauseWitness ==
    /\ TickReturned
    /\ speed = 0 /\ running
    /\ clock - lastTickTime >= tickIntervals[2 + 1]

\* the populations of the entities listed in tribes and in countries, added up
\* in no particular order
PopulationSum ==
    LET listed == { << "tribe", k >> : k \in 1..Len(tribes) }
                      \cup { << "country", k >> : k \in 1..Len(countries) }
        population(e) == IF e[1] = "tribe" THEN tribes[e[2]].population
                         ELSE heap[countries[e[2]]].population
        RECURSIVE sum(_)
        sum(S) == IF S = {} THEN 0
                  ELSE LET e == CHOOSE x \in S : TRUE IN population(e) + sum(S \ {e})
    IN  sum(listed)

\* C17: getState().year is 0 after construction and initialize() and one more
\* after every tick(), hence N after N ticks; getState().totalPopulation is the
\* sum of the populations of the tribes in tribes and the countries in countries.
StateReport ==
    [][ /\ (pc = "new" \/ pc' = "new") => getState.year = 0
        /\ getState'.year = getState.year + (IF pc = "idle" /\ pc' # "idle" THEN 1 ELSE 0)
        /\ getState.totalPopulation = PopulationSum
        /\ getState'.totalPopulation = PopulationSum'
      ]_vars

\* C17 witness: one tick after year 399 has returned with tribes and countries
\* both listed
StateReportWitness ==
    /\ TickReturned
    /\ getState.year = MatureYear + 1
    /\ getState.tribes > 0 /\ getState.countries > 0
    /\ getState.totalPopulation > 0

\* the countries with a territory within two columns, round the seam or not,
\* and two rows of a territory of the country
TorusNeighbors(cid) ==
    { other \in SeqToSet(countries) \ {cid} :
        \E t1 \in SeqToSet(heap[cid].territories) :
            \E t2 \in SeqToSet(heap[other].territories) :
                /\ Min(Abs(t2.x - t1.x), WorldWidth - Abs(t2.x - t1.x)) <= 2
                /\ Abs(t2.y - t1.y) <= 2 }

\* C18: findNeighbors wraps modulo the world width: its neighbours are the
\* countries within two columns on the torus and two rows, whenever the
\* country loop of a tick asks for them.
NeighborsOnTorus ==
    \A k \in 1..Len(countries) :
        (pc = "countries" /\ idx = k) =>
        SeqToSet(findNeighbors(countries[k], countries, heap)) = TorusNeighbors(countries[k])

\* C19: the number of tribes never exceeds 600.
TribeCap == Len(tribes) <= 600

\* C20: a tribe holds at most 8 territories.
TribeTerritoryLimit == \A k \in 1..Len(tribes) : Len(tribes[k].territories) <= 8

\* C21: a step of the tribe loop that forms a country gives it the population
\* and territories of the tribe, unrest 0, no allies and the capital at
\* (tribe.x, tribe.y), removes the tribe, lists the country once and counts one
\* more civilization.
FormationCopiesTribe ==
    [][ (pc = "tribes" /\ Len(countries') = Len(countries) + 1) =>
            LET c == heap'[countries'[Len(countries')]]
            IN  /\ \E r \in tribeTick(tribes[idx], idx, tribes, countries, idCounter) :
                      /\ r.kind = "civ" /\ r.country = c
                      /\ c.population = r.tribe.population
                      /\ c.territories = r.tribe.territories
                      /\ c.capitalX = r.tribe.x /\ c.capitalY = r.tribe.y
                /\ c.unrest = 0 /\ c.allies = << >>
                /\ tribes' = RemoveAt(tribes, idx)
                /\ Cardinality({ k \in 1..Len(countries') : countries'[k] = c.id }) = 1
                /\ stats'.totalCivilizations = stats.totalCivilizations + 1
      ]_vars

\* the wars of a list that a country is attacker or defender of
WarsOf(cid, wars) ==
    { k \in 1..Len(wars) : wars[k].attacker = cid \/ wars[k].defender = cid }

TraitNames == {"aggression", "caution", "diplomacy", "ambition", "freedom", "rationality"}

\* C24: every trait of every leader is within [0, 1] (0..100 hundredths), and
\* when a country with unrest of at most 70 gets a new leader, each trait of
\* the heir is within 0.15 of the predecessor's.
HeirTraitsClose ==
    [][ \A c \in DOMAIN heap \cap DOMAIN heap' :
            /\ \A f \in TraitNames : heap'[c].leader.traits[f] \in 0..100
            /\ (heap'[c].leader.id # heap[c].leader.id /\ heap[c].unrest <= 70) =>
                  \A f \in TraitNames :
                      Abs(heap'[c].leader.traits[f] - heap[c].leader.traits[f]) <= 15
      ]_vars

\* C25: while generatePlanet is suspended planetData is not assigned; when it
\* is assigned, all five parts of the world are complete; and nothing a
\* callback has read was a part still being built.
WorldVisibility ==
    /\ Suspended(planet) => planet.planetData = << >>
    /\ \A k \in 1..Len(planet.planetData) :
          \A f \in DOMAIN planet.planetData[k] : planet.planetData[k][f] = "full"
    /\ \A s \in planet.seen :
          IF s[1] = "planetData" THEN \A f \in DOMAIN s[2] : s[2][f] = "full"
          ELSE s[2] = "complete"

\* C25 witness: generatePlanet is suspended in the texture loop, with every
\* array built, while the user has dragged the camera away
WorldVisibilityWitness ==
    /\ Suspended(planet) /\ Stages[planet.stage] = "texture"
    /\ planet.tiles = "full"
    /\ planet.isDragging /\ planet.cameraX > 0

\* C26: when the tribe loop leaves a tribe with a new centre (x, y), which only
\* Tribe.migrate writes, the tile of the new centre is no ocean and is in the
\* territories of no other tribe and of no country.
MigrateAvoidsClaims ==
    [][ (pc = "tribes" /\ idx <= Len(tribes') /\ tribes'[idx].id = tribes[idx].id
         /\ << tribes'[idx].x, tribes'[idx].y >> # << tribes[idx].x, tribes[idx].y >>) =>
            LET target == Tile(tribes'[idx].x, tribes'[idx].y)
            IN  /\ terrain[target] # TERRAIN_OCEAN
                /\ \A k \in 1..Len(tribes) : k # idx => ~ Owns(tribes[k].territories, target)
                /\ \A k \in 1..Len(countries) : ~ ownsTerritory(countries[k], target)
      ]_vars

\* C27: when the tribe loop of simulateTick has ended, every tribe in the list
\* has been processed exactly once if it was there when the tick began (its age
\* is one more than before) and not at all if it was made by a split.
ProcessedOnce ==
    game.i = 0 =>
        \A k \in 1..Len(game.tribes) : game.tribes[k].age = game.tribes[k].ageBefore + 1

\* C28: when tick() has returned, every country in the countries list holds at
\* least one territory, also after a conquest in the war phase of that tick.
NoLandlessCountry ==
    pc = "idle" =>
        \A k \in 1..Len(countries) : heap[countries[k]].territories # << >>

FlagsMatchWars ==
    pc = "idle" =>
        \A k \in 1..Len(countries) :
            LET mine == { n \in 1..Len(activeWars) :
                             countries[k] \in {activeWars[n].attacker, activeWars[n].defender} }
            IN  /\ heap[countries[k]].atWar <=> mine # {}
                /\ Cardinality(mine) <= 1

\* after a tick one war is active, its parties are flagged and the third
\* country is not
FlagsWitness ==
    /\ pc = "idle" /\ activeWars # << >>
    /\ heap[activeWars[1].attacker].atWar /\ heap[activeWars[1].defender].atWar
    /\ \E k \in 1..Len(countries) : ~ heap[countries[k]].atWar

\* C31: a war tick that ends the war on an exhaustion counter finds the
\* attacker's exhaustion above the defender's; the war ends as a defender
\* victory and the defender loses no tile to an annexation in that tick.
ExhaustionFavoursDefender ==
    [][ ( /\ pc = "wars"
          /\ Len(activeWars') < Len(activeWars)
          /\ endCondition(exhaust(activeWars[idx]), heap') = "undecided" ) =>
            LET w == exhaust(activeWars[idx])
            IN  /\ w.attackerExhaustion > w.defenderExhaustion
                /\ events'[Len(events')].type = "warEnded"
                /\ events'[Len(events')].winner = w.defender
                /\ Len(heap'[w.defender].territories)
                      = Len(heap[w.defender].territories) - Cardinality(NewConquests)
      ]_vars

\* the war has been ended by exhaustion in its twentieth tick, won by the
\* defender who still holds its two tiles
ExhaustionWitness ==
    /\ pc = "ai" /\ activeWars = << >>
    /\ year = MatureYear + 20
    /\ events # << >>
    /\ LastEvent.type = "warEnded" /\ LastEvent.winner = LastEvent.b
    /\ Len(heap[LastEvent.b].territories) = 2

\* C32: when the sampling loop of a tribe has ended on a habitable sample, the
\* tribe has been spawned on that sample, whatever the number of attempts.
HabitableSampleSpawns ==
    (spawning.done /\ isHabitable(spawning.x, spawning.y)) =>
        /\ Len(tribes) = 1
        /\ tribes[1].x = spawning.x /\ tribes[1].y = spawning.y

\* C33: no tribe lists the same tile twice in its territories, after any
\* expansions, conquests of other tribes and migrations.
NoTileTwice ==
    \A k \in 1..Len(game.tribes) :
        LET terr == game.tribes[k].territories
        IN  \A a \in 1..Len(terr) : \A b \in 1..Len(terr) : a # b => terr[a] # terr[b]

\* C34: the capital tile of every country of the countries list is one of the
\* country's territories, also after conquests and annexations.
CapitalHeld ==
    \A k \in 1..Len(countries) :
        LET c == heap[countries[k]]
        IN  Owns(c.territories, Tile(c.capitalX, c.capitalY))

\* C35: the centre (x, y) of every tribe is one of the tribe's territories,
\* after migrations, expansions and splits, for the parent and the new tribe.
CentreHeld ==
    \A k \in 1..Len(tribes) :
        Owns(tribes[k].territories, Tile(tribes[k].x, tribes[k].y))

\* C36: the events handed to the page by gameLoop are the surface events
\* logged so far, each once and in the order of logging.
EventsDelivered == ui.delivered = emitted.surface

\* the countries a timer callback is about to resolve, as it finds them
Pending(g, k) == << Object(g, g.timers[k].attacker), Object(g, g.timers[k].defender) >>

\* C37: when a timer callback resolves a war, attacker and defender are members
\* of gameState.countries and flagged atWar; afterwards the parties of every
\* war still pending are flagged atWar.
TimerWarsConsistent ==
    [][ \A k \in 1..Len(game.timers) :
          game' = resolveWar([game EXCEPT !.timers = RemoveAt(@, k)],
                             game.timers[k].attacker, game.timers[k].defender) =>
              /\ \A n \in 1..2 :
                    /\ Pending(game, k)[n].atWar
                    /\ \E m \in 1..Len(game.countries) :
                          game.countries[m].id = Pending(game, k)[n].id
              /\ \A j \in 1..Len(game'.timers) :
                    Pending(game', j)[1].atWar /\ Pending(game', j)[2].atWar
      ]_vars

\* C38: stats.totalWars is the number of wars declared so far, one for every
\* warDeclared event of the log.
TotalWarsCounted ==
    stats.totalWars = Cardinality({ k \in 1..Len(events) : events[k].type = "warDeclared" })

StateIs32Bit ==
    /\ rng.hi < Limb /\ rng.lo < Limb
    /\ rng.calls > 0 => (rng.hi = rng.t.hi /\ rng.lo = rng.t.lo)

====
